---- MODULE Spec2Model ----
(***************************************************************************)
(* A model of the ADIF codec of qrz-logbook-api (src/src/adif.rs):         *)
(* AdifParser::to_adif, AdifParser::parse_adif, parse_single_record,       *)
(* fields_to_qso, format_time, parse_date and parse_time; and of the       *)
(* record builder (src/src/models.rs: QsoRecordBuilder) and of the paging  *)
(* loop (src/src/client.rs: QrzLogbookClient::fetch_all_qsos), of the      *)
(* client's construction (QrzLogbookClient::new) and of its reading of the *)
(* server's replies (parse_insert_response, parse_delete_response,         *)
(* parse_status_response, parse_fetch_response).                           *)
(*                                                                         *)
(* A Rust String is modelled as a sequence of characters, each character a *)
(* one-element string; the character "U+E9" stands for a two-byte UTF-8    *)
(* character (e-acute), so that the byte length (str::len, byte slicing)   *)
(* and the character count (chars()) of a string can differ as they do in  *)
(* the program.  Positions are 0-based as in the source: At and Slice      *)
(* translate them to TLA+'s 1-based sequences.                             *)
(***************************************************************************)
EXTENDS Integers, Sequences, FiniteSets, TLC

VARIABLES qso, craft, adif, pc, records, idx, qsos, result,
          builder, calls, bpc, built,
          options, overflow_checks, store, honest,
          all_qsos, after_logid, requests, responses, fpc, fresult,
          api_key, user_agent, client, cpc, reply, parsed

\* the codec's state: to_adif's argument and parse_adif's text and locals
codecVars == <<qso, craft, adif, pc, records, idx, qsos, result>>

\* the builder's state: the QsoRecordBuilder, the setter calls made on it so
\* far, where the caller stands, the record build() returned
builderVars == <<builder, calls, bpc, built>>

\* fetch_all_qsos: its argument, whether the build checks integer overflow, the
\* logbook of the server (the logids of the QSOs that match the caller's
\* filters, lowest first), whether every reply so far was the server's own
\* answer, the locals all_qsos and after_logid, the requests sent and the
\* replies received so far, where the call stands, what it returned
pagingVars ==
    <<options, overflow_checks, store, honest,
      all_qsos, after_logid, requests, responses, fpc, fresult>>

\* the client: the arguments of QrzLogbookClient::new and what it returned,
\* where the caller stands, the reply text given to one of the parse_*_response
\* methods and what the method returned
clientVars == <<api_key, user_agent, client, cpc, reply, parsed>>

vars == <<codecVars, builderVars, pagingVars, clientVars>>

(***************************************************************************)
(* Option and Result values.                                               *)
(***************************************************************************)
None == <<>>

Some(x) == <<x>>

Ok(v) == [kind |-> "Ok", val |-> v]

Err(msg) == [kind |-> "Err", val |-> msg]

Panic(msg) == [kind |-> "Panic", val |-> msg]

IsOk(r) == r.kind = "Ok"

IsErr(r) == r.kind = "Err"

(***************************************************************************)
(* Characters and strings.                                                 *)
(***************************************************************************)
Digits == <<"0", "1", "2", "3", "4", "5", "6", "7", "8", "9">>

UpperLetters == <<"A", "B", "C", "D", "E", "F", "G", "H", "I", "J", "K", "L", "M",
                  "N", "O", "P", "Q", "R", "S", "T", "U", "V", "W", "X", "Y", "Z">>

LowerLetters == <<"a", "b", "c", "d", "e", "f", "g", "h", "i", "j", "k", "l", "m",
                  "n", "o", "p", "q", "r", "s", "t", "u", "v", "w", "x", "y", "z">>

\* the characters of more than one byte: e-acute, and any other character of
\* two, three and four bytes
NonAscii == {"U+E9", "U+2", "U+3", "U+4"}

IsDigit(c) == \E i \in 1..10 : Digits[i] = c

DigitVal(c) == (CHOOSE i \in 1..10 : Digits[i] = c) - 1

DigitChar(d) == Digits[d + 1]

\* char::is_whitespace, on the characters of the model's alphabet
IsWhitespace(c) == c \in {" ", "\n", "\t", "\r"}

\* char::to_lowercase
LowerChar(c) ==
    IF \E i \in 1..26 : UpperLetters[i] = c
    THEN LowerLetters[CHOOSE i \in 1..26 : UpperLetters[i] = c]
    ELSE c

\* str::to_lowercase
ToLowercase(s) == [i \in 1..Len(s) |-> LowerChar(s[i])]

\* the UTF-8 width of one character
Utf8Len(c) ==
    IF c \in {"U+E9", "U+2"} THEN 2
    ELSE IF c = "U+3" THEN 3
    ELSE IF c = "U+4" THEN 4
    ELSE 1

\* str::len: the length in bytes, one for each character and one more for each
\* byte a character has beyond its first
ByteLen(s) ==
    Len(s) + Cardinality({p \in (1..Len(s)) \X (2..4) : Utf8Len(s[p[1]]) >= p[2]})

\* chars[i], 0-based
At(chars, i) == chars[i + 1]

\* chars[a..b], 0-based and half-open
Slice(chars, a, b) == SubSeq(chars, a + 1, b)

\* the one element of ks, or -1 when ks is empty
PickOr(ks) == IF ks = {} THEN 0 - 1 ELSE CHOOSE k \in ks : TRUE

\* the number of characters of s before its byte b, or -1 when b is inside a
\* character or past the end
CharsBefore(s, b) == PickOr({k \in 0..Len(s) : ByteLen(SubSeq(s, 1, k)) = b})

\* str::is_char_boundary
IsCharBoundary(s, b) == CharsBefore(s, b) >= 0

\* the characters i+1..j of s, when both ends are character boundaries
SliceAt(s, i, j) ==
    IF i >= 0 /\ j >= 0 THEN Ok(SubSeq(s, i + 1, j))
    ELSE Panic("byte index is not a char boundary")

\* &s[a..b] on a str: a byte range, which panics off a character boundary
ByteSlice(s, a, b) == SliceAt(s, CharsBefore(s, a), CharsBefore(s, b))

RECURSIVE Concat(_)
\* [String]::join("")
Concat(ss) == IF ss = <<>> THEN <<>> ELSE Head(ss) \o Concat(Tail(ss))

RECURSIVE ToDecimal(_)
\* usize's Display: the decimal digits of n
ToDecimal(n) ==
    IF n < 10 THEN <<DigitChar(n)>> ELSE ToDecimal(n \div 10) \o <<DigitChar(n % 10)>>

RECURSIVE DecValue(_)
DecValue(ds) ==
    IF ds = <<>> THEN 0 ELSE 10 * DecValue(SubSeq(ds, 1, Len(ds) - 1)) + DigitVal(ds[Len(ds)])

(***************************************************************************)
(* str::parse for i32 and u32: an optional sign ('+', and '-' for a signed *)
(* type) followed by at least one decimal digit.  The texts parsed are the *)
(* two and four byte slices of a date or a time (and a short exponent), so  *)
(* the value is always in the type's range.                                *)
(***************************************************************************)
ParseInt(s, signed) ==
    IF s = <<>> THEN Err("Empty")
    ELSE IF Len(s) = 1 /\ s[1] \in {"+", "-"} THEN Err("InvalidDigit")
    ELSE LET neg == signed /\ s[1] = "-"
             ds  == IF s[1] = "+" \/ neg THEN Tail(s) ELSE s
         IN  IF \A i \in 1..Len(ds) : IsDigit(ds[i])
             THEN Ok(IF neg THEN 0 - DecValue(ds) ELSE DecValue(ds))
             ELSE Err("InvalidDigit")

(***************************************************************************)
(* usize, a 64-bit word.  A value is kept in one of three forms: "small",  *)
(* the value n itself (a text of at most nine digits); "top", the value    *)
(* usize::MAX - n for the values whose first eleven digits are those of    *)
(* usize::MAX; "large", any value between the two, which no position of a  *)
(* text reaches and no addition of a position carries over the word.       *)
(***************************************************************************)
\* usize::MAX = 2^64 - 1 in decimal
UsizeMaxText ==
    <<"1", "8", "4", "4", "6", "7", "4", "4", "0", "7", "3",
      "7", "0", "9", "5", "5", "1", "6", "1", "5">>

RECURSIVE StripZeros(_)
\* a digit text without its leading zeros
StripZeros(ds) == IF Len(ds) > 1 /\ Head(ds) = "0" THEN StripZeros(Tail(ds)) ELSE ds

\* a < b, for two digit texts without leading zeros
DigitsLess(a, b) ==
    \/ Len(a) < Len(b)
    \/ /\ Len(a) = Len(b)
       /\ \E i \in 1..Len(a) :
             /\ DigitVal(a[i]) < DigitVal(b[i])
             /\ \A j \in 1..(i - 1) : a[j] = b[j]

UsizeSmall(n) == [cls |-> "small", n |-> n]

UsizeLarge == [cls |-> "large", n |-> 0]

UsizeTop(n) == [cls |-> "top", n |-> n]

\* the usize a digit text within the range of the type names
UsizeOfDigits(ds0) ==
    LET ds == StripZeros(ds0)
    IN  IF Len(ds) <= 9 THEN UsizeSmall(DecValue(ds))
        ELSE IF Len(ds) = 20 /\ SubSeq(ds, 1, 11) = SubSeq(UsizeMaxText, 1, 11)
        THEN UsizeTop(DecValue(SubSeq(UsizeMaxText, 12, 20)) - DecValue(SubSeq(ds, 12, 20)))
        ELSE UsizeLarge

\* str::parse::<usize>: an optional '+', at least one digit, no overflow
ParseUsize(s) ==
    IF s = <<>> THEN Err("Empty")
    ELSE LET ds == IF s[1] = "+" THEN Tail(s) ELSE s
         IN  IF ds = <<>> \/ ~(\A i \in 1..Len(ds) : IsDigit(ds[i])) THEN Err("InvalidDigit")
             ELSE IF DigitsLess(UsizeMaxText, StripZeros(ds)) THEN Err("PosOverflow")
             ELSE Ok(UsizeOfDigits(ds))

\* a + b for a position a of a text and a usize b.  When the sum passes
\* usize::MAX the addition panics where overflow checks are compiled in; where
\* they are not, the sum wraps to a position below a, and the slice
\* chars[a..sum] that follows panics for its start being past its end.
UsizeAdd(a, b) ==
    IF b.cls = "small" THEN Ok(UsizeSmall(a + b.n))
    ELSE IF b.cls = "large" THEN Ok(UsizeLarge)
    ELSE IF a > b.n THEN Panic("attempt to add with overflow")
    ELSE Ok(UsizeTop(b.n - a))

\* a usize compared with the length of a text
UsizeExceeds(u, len) == u.cls # "small" \/ u.n > len

(***************************************************************************)
(* Dates and times (chrono's NaiveDate and NaiveTime, second precision).   *)
(***************************************************************************)
IsLeapYear(year) == year % 4 = 0 /\ (year % 100 # 0 \/ year % 400 = 0)

DaysInMonth(year, month) ==
    IF month = 2 THEN (IF IsLeapYear(year) THEN 29 ELSE 28)
    ELSE IF month \in {4, 6, 9, 11} THEN 30 ELSE 31

\* NaiveDate::from_ymd_opt
FromYmdOpt(year, month, day) ==
    IF /\ year \in (0 - 262143)..262142
       /\ month \in 1..12
       /\ day \in 1..DaysInMonth(year, month)
    THEN Some([year |-> year, month |-> month, day |-> day])
    ELSE None

\* NaiveTime::from_hms_opt
FromHmsOpt(hour, minute, second) ==
    IF hour < 24 /\ minute < 60 /\ second < 60
    THEN Some([hour |-> hour, minute |-> minute, second |-> second])
    ELSE None

\* a number zero-padded to at least w digits
RECURSIVE ZeroPad(_, _)
ZeroPad(ds, w) == IF Len(ds) >= w THEN ds ELSE ZeroPad(<<"0">> \o ds, w)

\* chrono's %Y: four digits, and a sign before a year outside 0..9999
FormatYear(year) ==
    IF year \in 0..9999 THEN ZeroPad(ToDecimal(year), 4)
    ELSE IF year < 0 THEN <<"-">> \o ZeroPad(ToDecimal(0 - year), 4)
    ELSE <<"+">> \o ZeroPad(ToDecimal(year), 4)

\* qso_date.format("%Y%m%d")
FormatDate(d) ==
    FormatYear(d.year) \o ZeroPad(ToDecimal(d.month), 2) \o ZeroPad(ToDecimal(d.day), 2)

\* a wrong format_time: the seconds are written as well ("%H%M%S")
FormatTimeWithSeconds(time) ==
    ZeroPad(ToDecimal(time.hour), 2) \o ZeroPad(ToDecimal(time.minute), 2)
    \o ZeroPad(ToDecimal(time.second), 2)

\* time.format("%H%M").to_string()
format_time(time) ==
    ZeroPad(ToDecimal(time.hour), 2) \o ZeroPad(ToDecimal(time.minute), 2)

\* the `?` on year, month and day in turn, then from_ymd_opt
DateOf(ys, year, ms, month, ds, day) ==
    IF ~IsOk(ys) THEN ys
    ELSE IF ~IsOk(year) THEN Err("Invalid year in date")
    ELSE IF ~IsOk(ms) THEN ms
    ELSE IF ~IsOk(month) THEN Err("Invalid month in date")
    ELSE IF ~IsOk(ds) THEN ds
    ELSE IF ~IsOk(day) THEN Err("Invalid day in date")
    ELSE IF FromYmdOpt(year.val, month.val, day.val) = None THEN Err("Invalid date")
    ELSE Ok(FromYmdOpt(year.val, month.val, day.val)[1])

\* the three slices of the date, each parsed only when it was cut
DateOfSlices(ys, ms, ds) ==
    DateOf(ys, ParseInt(ys.val, TRUE), ms, ParseInt(ms.val, FALSE), ds, ParseInt(ds.val, FALSE))

parse_date(date_str) ==
    IF ByteLen(date_str) # 8 THEN Err("Date must be 8 characters (YYYYMMDD)")
    ELSE DateOfSlices(ByteSlice(date_str, 0, 4), ByteSlice(date_str, 4, 6),
                      ByteSlice(date_str, 6, 8))

\* the `?` on hour, minute and second in turn, then from_hms_opt
TimeOf(hs, hour, ms, minute, ss, second) ==
    IF ~IsOk(hs) THEN hs
    ELSE IF ~IsOk(hour) THEN Err("Invalid hour in time")
    ELSE IF ~IsOk(ms) THEN ms
    ELSE IF ~IsOk(minute) THEN Err("Invalid minute in time")
    ELSE IF ~IsOk(ss) THEN ss
    ELSE IF ~IsOk(second) THEN Err("Invalid second in time")
    ELSE IF FromHmsOpt(hour.val, minute.val, second.val) = None THEN Err("Invalid time")
    ELSE Ok(FromHmsOpt(hour.val, minute.val, second.val)[1])

\* the three slices of the time, each parsed only when it was cut
TimeOfSlices(hs, ms, ss) ==
    TimeOf(hs, ParseInt(hs.val, FALSE), ms, ParseInt(ms.val, FALSE), ss, ParseInt(ss.val, FALSE))

\* the time of six characters: the one given, or the one of four with "00"
TimeOfSix(time_str) ==
    IF ByteLen(time_str) # 6 THEN Err("Time must be 4 or 6 characters (HHMM or HHMMSS)")
    ELSE TimeOfSlices(ByteSlice(time_str, 0, 2), ByteSlice(time_str, 2, 4),
                      ByteSlice(time_str, 4, 6))

parse_time(time_str0) ==
    TimeOfSix(IF ByteLen(time_str0) = 4 THEN time_str0 \o <<"0", "0">> ELSE time_str0)

(***************************************************************************)
(* f64: a finite value is m * 10^e with m not a multiple of 10 (m = 0 has  *)
(* e = 0), which is exact for the short decimal texts used here; the other *)
(* values are the infinities and NaN (cls).                                *)
(***************************************************************************)
RECURSIVE NormF64(_, _, _)
NormF64(neg, m, e) ==
    IF m = 0 THEN [cls |-> "finite", neg |-> neg, m |-> 0, e |-> 0]
    ELSE IF m % 10 = 0 THEN NormF64(neg, m \div 10, e + 1)
    ELSE [cls |-> "finite", neg |-> neg, m |-> m, e |-> e]

F64Infinity(neg) == [cls |-> "inf", neg |-> neg, m |-> 0, e |-> 0]

F64NaN == [cls |-> "nan", neg |-> FALSE, m |-> 0, e |-> 0]

AllDigits(s) == \A i \in 1..Len(s) : IsDigit(s[i])

\* the index of the first character of s in set cs, or Len(s) + 1
FirstIn(s, cs) ==
    IF \E i \in 1..Len(s) : s[i] \in cs
    THEN CHOOSE i \in 1..Len(s) : s[i] \in cs /\ \A j \in 1..(i - 1) : s[j] \notin cs
    ELSE Len(s) + 1

\* str::parse::<f64>
ParseF64(s) ==
    LET neg  == s # <<>> /\ s[1] = "-"
        rest == IF s # <<>> /\ s[1] \in {"+", "-"} THEN Tail(s) ELSE s
        low  == ToLowercase(rest)
        ePos == FirstIn(rest, {"e", "E"})
        mant == SubSeq(rest, 1, ePos - 1)
        dot  == FirstIn(mant, {"."})
        int  == SubSeq(mant, 1, dot - 1)
        frac == SubSeq(mant, dot + 1, Len(mant))
        exp  == IF ePos > Len(rest) THEN Ok(0)
                ELSE ParseInt(SubSeq(rest, ePos + 1, Len(rest)), TRUE)
    IN  IF low \in {<<"i", "n", "f">>, <<"i", "n", "f", "i", "n", "i", "t", "y">>}
        THEN Ok(F64Infinity(neg))
        ELSE IF low = <<"n", "a", "n">> THEN Ok(F64NaN)
        ELSE IF /\ AllDigits(int) /\ AllDigits(frac) /\ Len(int) + Len(frac) >= 1
                /\ IsOk(exp)
        THEN Ok(NormF64(neg, DecValue(int \o frac), exp.val - Len(frac)))
        ELSE Err("invalid float literal")

\* f64's Display (to_string): the shortest decimal text, never an exponent
F64ToString(f) ==
    IF f.cls = "nan" THEN <<"N", "a", "N">>
    ELSE IF f.cls = "inf" THEN (IF f.neg THEN <<"-">> ELSE <<>>) \o <<"i", "n", "f">>
    ELSE LET ds == ToDecimal(f.m)
             k  == 0 - f.e
             body == IF f.e >= 0 THEN ds \o [i \in 1..f.e |-> "0"]
                     ELSE IF Len(ds) > k
                     THEN SubSeq(ds, 1, Len(ds) - k) \o <<".">> \o SubSeq(ds, Len(ds) - k + 1, Len(ds))
                     ELSE <<"0", ".">> \o [i \in 1..(k - Len(ds)) |-> "0"] \o ds
         IN  (IF f.neg THEN <<"-">> ELSE <<>>) \o body

(***************************************************************************)
(* Field names, and HashMap<String, String> as a function on its keys.     *)
(***************************************************************************)
N_call == <<"c", "a", "l", "l">>

N_station_callsign ==
    <<"s", "t", "a", "t", "i", "o", "n", "_", "c", "a", "l", "l", "s", "i", "g", "n">>

N_qso_date == <<"q", "s", "o", "_", "d", "a", "t", "e">>

N_time_on == <<"t", "i", "m", "e", "_", "o", "n">>

N_time_off == <<"t", "i", "m", "e", "_", "o", "f", "f">>

N_band == <<"b", "a", "n", "d">>

N_mode == <<"m", "o", "d", "e">>

N_freq == <<"f", "r", "e", "q">>

N_rst_sent == <<"r", "s", "t", "_", "s", "e", "n", "t">>

N_rst_rcvd == <<"r", "s", "t", "_", "r", "c", "v", "d">>

N_qth == <<"q", "t", "h">>

N_name == <<"n", "a", "m", "e">>

N_comment == <<"c", "o", "m", "m", "e", "n", "t">>

\* the names fields_to_qso removes from the table
KnownNames ==
    {N_call, N_station_callsign, N_qso_date, N_time_on, N_time_off, N_band, N_mode,
     N_freq, N_rst_sent, N_rst_rcvd, N_qth, N_name, N_comment}

EmptyMap == <<>>

MapInsert(map, k, v) == [x \in (DOMAIN map) \cup {k} |-> IF x = k THEN v ELSE map[x]]

\* HashMap::remove(k), as an Option of the value removed
MapGet(map, k) == IF k \in DOMAIN map THEN Some(map[k]) ELSE None

\* a wrong MapWithout: nothing is removed from the table
MapKeepAll(map, ks) == map

\* what is left of the table after the remove calls for the names ks
MapWithout(map, ks) == [x \in (DOMAIN map) \ ks |-> map[x]]

(***************************************************************************)
(* AdifParser::to_adif.  order lists the keys of additional_fields in the   *)
(* order the HashMap's iterator yields them.                               *)
(***************************************************************************)
\* one entry of to_adif's fields vector before it is formatted
Field(name, len, value) == [name |-> name, len |-> len, value |-> value]

\* format!("<{}:{}>{}", name, len, value)
FieldText(f) == <<"<">> \o f.name \o <<":">> \o ToDecimal(f.len) \o <<">">> \o f.value

EorMarker == <<"<", "e", "o", "r", ">">>

\* a string field: its declared length is String::len, the length in bytes
StrField(name, value) == Field(name, ByteLen(value), value)

\* a wrong OptField: an absent field is written as a field with an empty value
OptFieldAlways(name, opt) == <<StrField(name, IF opt = None THEN <<>> ELSE opt[1])>>

\* if let Some(ref v) = opt { fields.push(...) }
OptField(name, opt) == IF opt = None THEN <<>> ELSE <<StrField(name, opt[1])>>

\* the field entries to_adif pushes, in order, without the final marker
AdifFields(q, order) ==
    <<StrField(N_call, q.call),
      StrField(N_station_callsign, q.station_callsign),
      Field(N_qso_date, 8, FormatDate(q.qso_date)),
      StrField(N_time_on, format_time(q.time_on)),
      StrField(N_band, q.band),
      StrField(N_mode, q.mode)>>
    \o (IF q.time_off = None THEN <<>>
        ELSE <<StrField(N_time_off, format_time(q.time_off[1]))>>)
    \o (IF q.freq = None THEN <<>> ELSE <<StrField(N_freq, F64ToString(q.freq[1]))>>)
    \o OptField(N_rst_sent, q.rst_sent)
    \o OptField(N_rst_rcvd, q.rst_rcvd)
    \o OptField(N_qth, q.qth)
    \o OptField(N_name, q.name)
    \o OptField(N_comment, q.comment)
    \o [i \in 1..Len(order) |->
          StrField(ToLowercase(order[i]), q.additional_fields[order[i]])]

to_adif(q, order) ==
    LET fields == AdifFields(q, order)
    IN  Concat([i \in 1..Len(fields) |-> FieldText(fields[i])]) \o EorMarker

(***************************************************************************)
(* AdifParser::parse_single_record: the tokenizer loop, then fields_to_qso. *)
(***************************************************************************)
\* while end < chars.len() && chars[end] is none of stop { end += 1 }
RECURSIVE ScanTo(_, _, _)
ScanTo(chars, end, stop) ==
    IF end < Len(chars) /\ At(chars, end) \notin stop
    THEN ScanTo(chars, end + 1, stop)
    ELSE end

\* a wrong Required: a missing field is taken as the empty string
RequiredOrDefault(fields, name, msg) ==
    IF name \in DOMAIN fields THEN Ok(fields[name]) ELSE Ok(<<>>)

\* additional_fields.remove(name).ok_or_else(|| QrzLogbookError::adif_parse(msg))
Required(fields, name, msg) ==
    IF name \in DOMAIN fields THEN Ok(fields[name]) ELSE Err(msg)

fields_to_qso(fields) ==
    LET get(k) == MapGet(fields, k)
        call == Required(fields, N_call, "Missing call field")
        station_callsign ==
            Required(fields, N_station_callsign, "Missing station_callsign field")
        band == Required(fields, N_band, "Missing band field")
        mode == Required(fields, N_mode, "Missing mode field")
        qso_date_str == Required(fields, N_qso_date, "Missing qso_date field")
        qso_date == parse_date(qso_date_str.val)
        time_on_str == Required(fields, N_time_on, "Missing time_on field")
        time_on  == parse_time(time_on_str.val)
        time_off == IF get(N_time_off) = None THEN Ok(None)
                    ELSE LET t == parse_time(get(N_time_off)[1])
                         IN  IF IsOk(t) THEN Ok(Some(t.val)) ELSE t
        freq     == IF get(N_freq) = None THEN Ok(None)
                    ELSE LET f == ParseF64(get(N_freq)[1])
                         IN  IF IsOk(f) THEN Ok(Some(f.val))
                             ELSE Err("Invalid frequency format")
    IN  IF ~IsOk(call) THEN call
        ELSE IF ~IsOk(station_callsign) THEN station_callsign
        ELSE IF ~IsOk(band) THEN band
        ELSE IF ~IsOk(mode) THEN mode
        ELSE IF ~IsOk(qso_date_str) THEN qso_date_str
        ELSE IF ~IsOk(qso_date) THEN qso_date
        ELSE IF ~IsOk(time_on_str) THEN time_on_str
        ELSE IF ~IsOk(time_on) THEN time_on
        ELSE IF ~IsOk(time_off) THEN time_off
        ELSE IF ~IsOk(freq) THEN freq
        ELSE Ok([call |-> call.val,
                 station_callsign |-> station_callsign.val,
                 qso_date |-> qso_date.val,
                 time_on |-> time_on.val,
                 time_off |-> time_off.val,
                 band |-> band.val,
                 mode |-> mode.val,
                 freq |-> freq.val,
                 rst_sent |-> get(N_rst_sent),
                 rst_rcvd |-> get(N_rst_rcvd),
                 qth |-> get(N_qth),
                 name |-> get(N_name),
                 comment |-> get(N_comment),
                 additional_fields |-> MapWithout(fields, KnownNames)])

\* a wrong FieldName: the name is kept as it is written
FieldNameAsWritten(chars, start, end) == Slice(chars, start, end)

\* chars[start..end].iter().collect::<String>().to_lowercase()
FieldName(chars, start, end) == ToLowercase(Slice(chars, start, end))

\* a wrong resumption: one character past the character after the tag's '>'
MarkerResumeLate(end) == end + 2

\* a tag without length (like <eor>): pos = end + 1; continue
MarkerResume(end) == end + 1

RECURSIVE Tokenize(_, _, _)
\* the while loop of parse_single_record from position pos with table fields:
\* Ok(the table) when the loop ends, or the error it returns
Tokenize(chars, pos, fields) ==
    IF ~(pos < Len(chars)) THEN Ok(fields)
    ELSE IF At(chars, pos) # "<" THEN Tokenize(chars, pos + 1, fields)
    ELSE
    LET start == pos + 1
        end == ScanTo(chars, start, {":", ">"})
    IN  IF end >= Len(chars) THEN Ok(fields)
        ELSE
        LET field_name == FieldName(chars, start, end)
        IN  IF At(chars, end) = ">" THEN Tokenize(chars, MarkerResume(end), fields)
            ELSE
            LET length_start == end + 1
                length_end == ScanTo(chars, length_start, {">"})
            IN  IF length_end >= Len(chars) THEN Ok(fields)
                ELSE
                LET length_str == Slice(chars, length_start, length_end)
                    length == ParseUsize(length_str)
                IN  IF ~IsOk(length) THEN Err("Invalid length")
                    ELSE
                    LET value_start == length_end + 1
                        value_end == UsizeAdd(value_start, length.val)
                    IN  IF ~IsOk(value_end) THEN value_end
                        ELSE IF UsizeExceeds(value_end.val, Len(chars))
                        THEN Err("Field value extends beyond record")
                        ELSE Tokenize(chars, value_end.val.n,
                                      MapInsert(fields, field_name,
                                                Slice(chars, value_start, value_end.val.n)))

parse_single_record(record) ==
    LET fields == Tokenize(record, 0, EmptyMap)
    IN  IF IsOk(fields) THEN fields_to_qso(fields.val) ELSE fields

(***************************************************************************)
(* AdifParser::parse_adif: str::split on the marker, str::trim, the loop.  *)
(***************************************************************************)
\* s starts with pat at 0-based position i
MatchesAt(s, i, pat) == i + Len(pat) <= Len(s) /\ Slice(s, i, i + Len(pat)) = pat

\* str::find: the first position where pat matches, or Len(s) when there is
\* none (no match starts at Len(s), pat being non-empty)
Find(s, pat) ==
    LET matches == {i \in 0..(Len(s) - Len(pat)) : At(s, i) = pat[1] /\ MatchesAt(s, i, pat)}
    IN  IF matches = {} THEN Len(s)
        ELSE CHOOSE i \in matches : \A j \in matches : i <= j

RECURSIVE Split(_, _)
\* str::split(pat): the pieces between the matches of pat, found left to right
Split(s, pat) ==
    LET i == Find(s, pat)
    IN  IF i < Len(s)
        THEN <<Slice(s, 0, i)>> \o Split(Slice(s, i + Len(pat), Len(s)), pat)
        ELSE <<s>>

RECURSIVE TrimStart(_)
TrimStart(s) == IF s # <<>> /\ IsWhitespace(Head(s)) THEN TrimStart(Tail(s)) ELSE s

RECURSIVE TrimEnd(_)
TrimEnd(s) ==
    IF s # <<>> /\ IsWhitespace(s[Len(s)]) THEN TrimEnd(SubSeq(s, 1, Len(s) - 1)) ELSE s

\* a wrong trim: the partition is taken as it is
TrimNothing(s) == s

\* str::trim
Trim(s) == TrimEnd(TrimStart(s))

NoResult == [kind |-> "None", val |-> <<>>]

\* one iteration of parse_adif's loop on the partition record, with qsos so far:
\* the iteration continues the loop (done = FALSE) or returns the error
ParseAdifIteration(acc, record) ==
    LET trimmed == Trim(record)
        q == parse_single_record(trimmed)
    IN  IF trimmed = <<>> THEN [done |-> FALSE, qsos |-> acc, result |-> NoResult]
        ELSE IF IsOk(q) THEN [done |-> FALSE, qsos |-> Append(acc, q.val), result |-> NoResult]
        ELSE [done |-> TRUE, qsos |-> <<>>, result |-> q]

RECURSIVE ParseAdifLoop(_, _, _)
ParseAdifLoop(parts, i, acc) ==
    IF i > Len(parts) THEN Ok(acc)
    ELSE LET it == ParseAdifIteration(acc, parts[i])
         IN  IF it.done THEN it.result ELSE ParseAdifLoop(parts, i + 1, it.qsos)

\* parse_adif as a function of its input text
parse_adif(text) == ParseAdifLoop(Split(text, EorMarker), 1, <<>>)

(***************************************************************************)
(* The input texts.  A hand-written text is a sequence of pieces: a field  *)
(* piece is a tag "<name:len>" followed by the value written after it, a   *)
(* raw piece is any other text (a marker, white space).  Render is the     *)
(* text the pieces spell; the pieces keep what the writer meant.           *)
(***************************************************************************)
Tok(name, value) == [t |-> "field", name |-> name, len |-> ToDecimal(Len(value)), value |-> value]

TokLen(name, len, value) == [t |-> "field", name |-> name, len |-> len, value |-> value]

Raw(text) == [t |-> "raw", name |-> <<>>, len |-> <<>>, value |-> text]

Eor == Raw(EorMarker)

PieceText(p) ==
    IF p.t = "field" THEN <<"<">> \o p.name \o <<":">> \o p.len \o <<">">> \o p.value
    ELSE p.value

Render(pieces) == Concat([i \in 1..Len(pieces) |-> PieceText(pieces[i])])

\* the largest number of records concatenated in one input text
MaxRecords == 2

V_call == <<"W", "1", "A", "W">>

V_call2 == <<"V", "E", "3", "X", "Y", "Z">>

V_station == <<"K", "1", "A", "B", "C">>

V_date == <<"2", "0", "2", "4", "0", "1", "1", "5">>

V_time == <<"1", "4", "3", "0">>

V_time2 == <<"1", "4", "4", "5", "0", "0">>

V_band == <<"2", "0", "m">>

V_mode == <<"S", "S", "B">>

V_hi == <<"h", "i">>

N_app == <<"a", "p", "p", "_", "x">>

Base(call, date, time) ==
    <<Tok(N_call, call), Tok(N_station_callsign, V_station), Tok(N_qso_date, date),
      Tok(N_time_on, time), Tok(N_band, V_band), Tok(N_mode, V_mode)>>

Base1 == Base(V_call, V_date, V_time)

Base2 == Base(V_call2, V_date, V_time2) \o <<Tok(N_comment, V_hi)>>

\* s without its i-th element
RemoveAt(s, i) == SubSeq(s, 1, i - 1) \o SubSeq(s, i + 1, Len(s))

\* s with its i-th element replaced by x
ReplaceAt(s, i, x) == [j \in 1..Len(s) |-> IF j = i THEN x ELSE s[j]]

\* values that hold tag characters, white space and the marker
OpaqueValues ==
    {<<"a", "<", "b">>, <<">">>, <<"&">>, <<" ", "x">>, <<"x", " ">>, <<"<", "e", "o", "r", ">">>, <<"a", "<", "e", "o", "r", ">", "b">>, <<"<", "x", ":", "1", ">">>, <<>>}

OpaqueInputs ==
    {SubSeq(Base1, 1, 5) \o <<Tok(N_comment, v), Base1[6], Eor>> : v \in OpaqueValues}
    \cup {Base1 \o <<Tok(N_comment, v), Eor>> : v \in OpaqueValues}
    \cup {Base1 \o <<Tok(N_app, v), Tok(N_comment, V_hi), Eor>> : v \in OpaqueValues}

\* one declared length of a well-formed record changed by d
WrongLenInputs ==
    {ReplaceAt(Base2, k, TokLen(Base2[k].name, ToDecimal(Len(Base2[k].value) + d),
                                Base2[k].value)) \o <<Eor>> :
        k \in {1, 6, 7}, d \in {0 - 2, 0 - 1, 1, 2}}

GoodBodies == {Base1, Base2}

BadBodies ==
    {ReplaceAt(Base1, 1, TokLen(N_call, <<"x">>, V_call)),
     ReplaceAt(Base1, 6, TokLen(N_mode, <<"9">>, V_mode)),
     RemoveAt(Base1, 5),
     Base(V_call, <<"2", "0", "2", "4", "1", "3", "0", "1">>, V_time),
     Base(V_call, V_date, <<"2", "5", "6", "1">>),
     Base1 \o <<Tok(N_freq, <<"a", "b", "c">>)>>,
     ReplaceAt(Base1, 6, TokLen(N_mode, UsizeMaxText, V_mode))}

InterRecordSpace == {<<>>, <<"\n">>, <<" ", "\n", "\n">>}

RecordGroups ==
    {b \o <<Eor>> \o (IF w = <<>> THEN <<>> ELSE <<Raw(w)>>) :
        b \in GoodBodies, w \in InterRecordSpace}
    \cup {b \o <<Eor>> : b \in BadBodies}

RECURSIVE Concatenations(_)
\* the texts of exactly n record groups
Concatenations(n) ==
    IF n = 0 THEN {<<>>, <<Raw(<<"\n">>)>>}
    ELSE {g \o rest : g \in RecordGroups, rest \in Concatenations(n - 1)}

ConcatInputs == UNION {Concatenations(n) : n \in 0..MaxRecords}

EorSpellings == {<<"<", "e", "o", "r", ">">>, <<"<", "E", "O", "R", ">">>, <<"<", "E", "o", "r", ">">>}

EorCaseInputs ==
    {Base1 \o <<Raw(s1)>> \o Base2 \o <<Raw(s2)>> : s1 \in EorSpellings, s2 \in EorSpellings}

ExtraPieces ==
    {<<>>, <<Tok(N_comment, V_hi)>>, <<Tok(N_app, V_hi)>>, <<Raw(<<"<", "c", "a", "l", "l", ">">>)>>,
     <<Tok(N_comment, <<"<", "b", "a", "n", "d", ":", "1", ">", "x">>)>>, <<Raw(<<" ">>), Tok(N_time_off, V_time)>>}

\* a record with one mandatory field left out (i = 0: none), and other pieces
MissingInputs ==
    {(IF i = 0 THEN Base1 ELSE RemoveAt(Base1, i)) \o x \o <<Eor>> :
        i \in 0..6, x \in ExtraPieces}

YearTexts == {<<"2", "0", "2", "4">>, <<"2", "0", "2", "3">>, <<"1", "9", "0", "0">>, <<"2", "0", "0", "0">>, <<"0", "0", "0", "0">>, <<"+", "2", "0", "2">>, <<"-", "0", "0", "1">>, <<"2", "0", "x", "4">>}

MonthTexts == {<<"0", "1">>, <<"0", "2">>, <<"0", "4">>, <<"1", "2">>, <<"1", "3">>, <<"0", "0">>, <<"+", "1">>, <<"1", " ">>}

DayTexts == {<<"0", "1">>, <<"2", "8">>, <<"2", "9">>, <<"3", "0">>, <<"3", "1">>, <<"3", "2">>, <<"0", "0">>, <<"+", "5">>}

DateValues ==
    {y \o m \o d : y \in YearTexts, m \in MonthTexts, d \in DayTexts}
    \cup {<<"2", "0", "2", "4", "0", "1", "1">>, <<"2", "0", "2", "4", "0", "1", "1", "5", "0">>, <<"2", "4", "0", "1", "1", "5">>, <<>>}

DateInputs == {Base(V_call, d, V_time) \o <<Eor>> : d \in DateValues}

HourTexts == {<<"0", "0">>, <<"1", "4">>, <<"2", "3">>, <<"2", "4">>, <<"+", "1">>, <<"1", "x">>}

MinuteTexts == {<<"0", "0">>, <<"3", "0">>, <<"5", "9">>, <<"6", "0">>, <<"+", "2">>}

SecondTexts == {<<>>, <<"0", "0">>, <<"4", "5">>, <<"5", "9">>, <<"6", "0">>, <<"+", "3">>}

TimeValues ==
    {h \o m \o x : h \in HourTexts, m \in MinuteTexts, x \in SecondTexts}
    \cup {<<"1", "4", "3">>, <<"1", "4", "3", "0", "0">>, <<"1", "4", "3", "0", "0", "0", "0">>, <<>>}

TimeInputs ==
    {Base(V_call, V_date, t) \o <<Eor>> : t \in TimeValues}
    \cup {Base1 \o <<Tok(N_time_off, t), Eor>> : t \in TimeValues}

\* length prefixes: not numbers, signed, in range, and at the end of the word range
LengthTexts ==
    {<<"x">>, <<>>, <<"2", "x">>, <<" ", "2">>, <<"-", "1">>, <<"+", "2">>,
     <<"0">>, <<"1">>, <<"2">>, <<"3">>, <<"9">>, <<"1", "0", "0", "0">>,
     <<"4", "2", "9", "4", "9", "6", "7", "2", "9", "6">>,
     <<"1", "8", "4", "4", "6", "7", "4", "4", "0", "7", "3",
       "7", "0", "9", "5", "5", "1", "0", "0", "0">>,
     <<"1", "8", "4", "4", "6", "7", "4", "4", "0", "7", "3",
       "7", "0", "9", "5", "5", "1", "6", "0", "0">>,
     UsizeMaxText,
     <<"1", "8", "4", "4", "6", "7", "4", "4", "0", "7", "3",
       "7", "0", "9", "5", "5", "1", "6", "1", "6">>,
     <<"9", "9", "9", "9", "9", "9", "9", "9", "9", "9", "9",
       "9", "9", "9", "9", "9", "9", "9", "9", "9", "9", "9">>}

\* a record whose last field declares the length l before the value v, which runs
\* to the end of the record
LengthInputs ==
    {Base1 \o <<TokLen(N_comment, l, v), Eor>> :
        l \in LengthTexts, v \in {<<>>, <<"x">>, V_hi}}

UpperChar(c) ==
    IF \E i \in 1..26 : LowerLetters[i] = c
    THEN UpperLetters[CHOOSE i \in 1..26 : LowerLetters[i] = c]
    ELSE c

\* a name in capitals, and with a capital first letter
ToUppercase(s) == [i \in 1..Len(s) |-> UpperChar(s[i])]

Capitalized(s) == [i \in 1..Len(s) |-> IF i = 1 THEN UpperChar(s[i]) ELSE s[i]]

\* the piece p under the name n
Renamed(p, n) == [p EXCEPT !.name = n]

\* a record with a comment and a field of the application
Base3 == Base1 \o <<Tok(N_comment, V_hi), Tok(N_app, <<"1">>)>>

\* Base3 with its tag names in capitals: all of them, or one of them
NameCaseInputs ==
    {[i \in 1..Len(Base3) |-> Renamed(Base3[i], ToUppercase(Base3[i].name))] \o <<Eor>>,
     [i \in 1..Len(Base3) |-> Renamed(Base3[i], Capitalized(Base3[i].name))] \o <<Eor>>}
    \cup {ReplaceAt(Base3, k, Renamed(Base3[k], ToUppercase(Base3[k].name))) \o <<Eor>> :
            k \in 1..Len(Base3)}

\* s with x put in before its i-th element (after the last one for i = Len(s) + 1)
InsertAt(s, i, x) == SubSeq(s, 1, i - 1) \o <<x>> \o SubSeq(s, i, Len(s))

\* the fields of Base3 in other orders: turned round, and two neighbours exchanged
OrderInputs ==
    {SubSeq(Base3, k + 1, Len(Base3)) \o SubSeq(Base3, 1, k) \o <<Eor>> :
        k \in 1..(Len(Base3) - 1)}
    \cup {[i \in 1..Len(Base3) |->
              IF i = k THEN Base3[k + 1] ELSE IF i = k + 1 THEN Base3[k] ELSE Base3[i]]
           \o <<Eor>> : k \in 1..(Len(Base3) - 1)}

\* a name given twice: a second call, date or comment, in lower case or in
\* capitals, before the first field, in the middle or at the end
DuplicateInputs ==
    {InsertAt(Base3, i, d) \o <<Eor>> :
        i \in {1, 4, Len(Base3) + 1},
        d \in {Tok(N_call, V_call2), Tok(ToUppercase(N_call), V_call2),
               Tok(N_qso_date, <<"2", "0", "2", "3", "0", "2", "2", "8">>),
               Tok(N_qso_date, <<"n", "o", "d", "a", "t", "e">>),
               Tok(Capitalized(N_comment), <<"b", "y", "e">>),
               Tok(ToUppercase(N_app), <<"2">>)}}

\* the start of a tag, cut inside the name or inside the length
TruncatedTags ==
    {<<"<">>, <<"<", "c", "o", "m">>, <<"<", "c", "o", "m", "m", "e", "n", "t", ":">>,
     <<"<", "c", "o", "m", "m", "e", "n", "t", ":", "2">>, <<"<", "a", "p", "p", "_", "x", ":", "x">>}

\* a record that ends inside a tag, before a marker or at the end of the text, and
\* after another record
TruncatedInputs ==
    {Base1 \o <<Raw(t)>> \o e : t \in TruncatedTags, e \in {<<>>, <<Eor>>}}
    \cup {Base2 \o <<Eor>> \o Base1 \o <<Raw(t), Eor>> : t \in TruncatedTags}

\* tags without length, and characters outside a tag
MarkerTags == {<<"<", "x", ">">>, <<"<", "E", "O", "H", ">">>, <<"<", "c", "a", "l", "l", ">">>,
               <<"<", "a", "p", "p", "_", "y", ">">>, <<"<", ">">>}

StrayTexts == {<<" ">>, <<"\n">>, <<"x">>, <<">">>, <<":", "3", ">">>, <<"U+E9", " ">>}

\* Base3 with a tag without length or stray characters between two of its tokens
StrayInputs ==
    {InsertAt(Base3, i, Raw(x)) \o <<Eor>> :
        i \in 2..Len(Base3), x \in MarkerTags \cup StrayTexts}

\* dates and times with a character of two bytes: of the right length in bytes or
\* not, the character across a cut or not
NonAsciiDates ==
    {<<"2", "0", "2", "U+E9", "0", "1", "5">>, <<"2", "0", "2", "4", "0", "U+E9", "1">>,
     <<"2", "0", "2", "4", "0", "1", "U+E9">>, <<"2", "0", "2", "4", "U+E9", "1", "5">>,
     <<"2", "0", "2", "4", "0", "1", "1", "U+E9">>}

NonAsciiTimes ==
    {<<"1", "U+E9", "0">>, <<"1", "4", "U+E9">>, <<"1", "4", "3", "U+E9", "0">>,
     <<"1", "4", "3", "U+E9">>, <<"U+E9", "U+E9">>}

NonAsciiInputs ==
    {Base(V_call, d, V_time) \o <<Eor>> : d \in NonAsciiDates}
    \cup {Base(V_call, V_date, t) \o <<Eor>> : t \in NonAsciiTimes}
    \cup {Base1 \o <<Tok(N_time_off, t), Eor>> : t \in NonAsciiTimes}

CraftInputs ==
    OpaqueInputs \cup WrongLenInputs \cup ConcatInputs \cup EorCaseInputs
    \cup MissingInputs \cup DateInputs \cup TimeInputs \cup LengthInputs
    \cup NameCaseInputs \cup OrderInputs \cup DuplicateInputs
    \cup TruncatedInputs \cup StrayInputs \cup NonAsciiInputs

(***************************************************************************)
(* The records given to to_adif.                                           *)
(***************************************************************************)
Date(y, m, d) == [year |-> y, month |-> m, day |-> d]

Time(h, m, x) == [hour |-> h, minute |-> m, second |-> x]

BaseQso ==
    [call |-> V_call, station_callsign |-> V_station, qso_date |-> Date(2024, 1, 15),
     time_on |-> Time(14, 30, 0), time_off |-> None, band |-> V_band, mode |-> V_mode,
     freq |-> None, rst_sent |-> None, rst_rcvd |-> None, qth |-> None, name |-> None,
     comment |-> None, additional_fields |-> EmptyMap]

V_rst == <<"5", "9">>

V_qth == <<"C", "T">>

V_name == <<"A", "l">>

N_MyKey == <<"M", "y", "K", "e", "y">>

\* records with every choice of populated optional fields, and two additional
\* fields, one of them under a name with capitals
LayoutQsos ==
    {[BaseQso EXCEPT !.time_off = toff, !.freq = f, !.rst_sent = rs, !.rst_rcvd = rr,
                     !.qth = q, !.name = n, !.comment = cm,
                     !.additional_fields =
                         MapInsert(MapInsert(EmptyMap, N_MyKey, <<"v">>), N_app, <<"1">>)] :
        toff \in {None, Some([hour |-> 15, minute |-> 0, second |-> 0])},
        f \in {None, Some(NormF64(FALSE, 7, 0))},
        rs \in {None, Some(V_rst)},
        rr \in {None, Some(<<"5", "7">>)},
        q \in {None, Some(V_qth)},
        n \in {None, Some(V_name)},
        cm \in {None, Some(V_hi)}}

EncoderQsos ==
    {[BaseQso EXCEPT !.call = c, !.qso_date = d, !.time_on = t, !.time_off = toff,
                     !.freq = f, !.comment = cm, !.additional_fields = af] :
        c \in {V_call, <<"K", "U+E9">>},
        d \in {Date(2024, 1, 15), Date(33, 11, 12), Date(10000, 1, 1)},
        t \in {Time(14, 30, 0), Time(14, 30, 45)},
        toff \in {None, Some(Time(15, 0, 0))},
        f \in {None, Some(NormF64(FALSE, 142, 0 - 1))},
        cm \in {None, Some(V_hi), Some(<<"<", "e", "o", "r", ">">>), Some(<<"x", " ">>)},
        af \in {EmptyMap,
                MapInsert(EmptyMap, <<"g", "r", "i", "d", "s", "q", "u", "a", "r", "e">>, <<"F", "N", "4", "2", "a", "a">>),
                MapInsert(MapInsert(EmptyMap, N_app, <<"1">>), <<"b">>, <<"<">>),
                MapInsert(EmptyMap, <<"M", "y", "K", "e", "y">>, <<"v">>)}}

\* records with times of day at both ends of the hours, minutes and seconds
ClockTimes ==
    {[hour |-> 0, minute |-> 0, second |-> 0], [hour |-> 0, minute |-> 0, second |-> 59],
     [hour |-> 9, minute |-> 5, second |-> 7], [hour |-> 9, minute |-> 5, second |-> 8],
     [hour |-> 12, minute |-> 0, second |-> 30], [hour |-> 23, minute |-> 59, second |-> 59]}

TimeQsos ==
    {[BaseQso EXCEPT !.time_on = t, !.time_off = toff] :
        t \in ClockTimes, toff \in {None} \cup {Some(x) : x \in ClockTimes}}

QsoInputs == EncoderQsos \cup LayoutQsos \cup TimeQsos

RECURSIVE Orders(_)
\* the orders in which a HashMap with key set S may be iterated
Orders(S) ==
    IF S = {} THEN {<<>>}
    ELSE UNION {{<<x>> \o r : r \in Orders(S \ {x})} : x \in S}

(***************************************************************************)
(* The state machine.  pc: "start" (nothing done), "text" (the wire text   *)
(* is there), "loop" (inside parse_adif's loop), "done" (it has returned). *)
(* qso = Some(r): r is encoded by to_adif and the text decoded again;      *)
(* qso = None: the text is the hand-written craft.                         *)
(***************************************************************************)
\* QsoRecordBuilder::new(): Self::default()
BuilderNew ==
    [call |-> None, station_callsign |-> None, qso_date |-> None, time_on |-> None,
     time_off |-> None, band |-> None, mode |-> None, freq |-> None, rst_sent |-> None,
     rst_rcvd |-> None, qth |-> None, name |-> None, comment |-> None,
     additional_fields |-> EmptyMap]

\* no builder is in use
BuilderIdle ==
    /\ builder = BuilderNew
    /\ calls = <<>>
    /\ bpc = "idle"
    /\ built = None

\* the codec is not in use
CodecIdle ==
    /\ qso = None
    /\ craft = <<>>
    /\ adif = <<>>
    /\ pc = "idle"
    /\ records = <<>>
    /\ idx = 0
    /\ qsos = <<>>
    /\ result = NoResult

\* a u64 or usize below 10^9
U64(n) == UsizeSmall(n)

\* u64::MAX
U64Max == UsizeTop(0)

\* FetchOptions::new(): Self::default()
FetchOptionsNew ==
    [all |-> FALSE, band |-> None, mode |-> None, call |-> None, max |-> None,
     after_logid |-> None, date_from |-> None, date_to |-> None]

\* fetch_all_qsos is not in use
PagingIdle ==
    /\ options = FetchOptionsNew
    /\ overflow_checks = FALSE
    /\ store = <<>>
    /\ honest = TRUE
    /\ all_qsos = <<>>
    /\ after_logid = U64(0)
    /\ requests = <<>>
    /\ responses = <<>>
    /\ fpc = "idle"
    /\ fresult = NoResult

\* no client is being made and no reply is being read
ClientIdle ==
    /\ api_key = <<>>
    /\ user_agent = <<>>
    /\ client = NoResult
    /\ cpc = "idle"
    /\ reply = <<>>
    /\ parsed = NoResult

Init ==
    /\ \/ qso \in {Some(q) : q \in QsoInputs} /\ craft = <<>>
       \/ qso = None /\ craft \in CraftInputs
    /\ adif = <<>>
    /\ pc = "start"
    /\ records = <<>>
    /\ idx = 0
    /\ qsos = <<>>
    /\ result = NoResult
    /\ BuilderIdle
    /\ PagingIdle
    /\ ClientIdle

\* AdifParser::to_adif(&qso)
ToAdif ==
    /\ pc = "start"
    /\ qso # None
    /\ \E order \in Orders(DOMAIN qso[1].additional_fields) :
          adif' = to_adif(qso[1], order)
    /\ pc' = "text"
    /\ UNCHANGED <<qso, craft, records, idx, qsos, result, builderVars, pagingVars, clientVars>>

\* the caller supplies a text of its own
WriteText ==
    /\ pc = "start"
    /\ qso = None
    /\ adif' = Render(craft)
    /\ pc' = "text"
    /\ UNCHANGED <<qso, craft, records, idx, qsos, result, builderVars, pagingVars, clientVars>>

\* parse_adif up to its loop: qsos = Vec::new(), records = adif.split("<eor>")
ParseAdifSplit ==
    /\ pc = "text"
    /\ records' = Split(adif, EorMarker)
    /\ qsos' = <<>>
    /\ idx' = 1
    /\ pc' = "loop"
    /\ UNCHANGED <<qso, craft, adif, result, builderVars, pagingVars, clientVars>>

\* one iteration of the loop; an error returns from parse_adif
ParseAdifRecord ==
    /\ pc = "loop"
    /\ idx <= Len(records)
    /\ LET it == ParseAdifIteration(qsos, records[idx])
       IN  /\ qsos' = it.qsos
           /\ result' = it.result
           /\ pc' = IF it.done THEN "done" ELSE "loop"
           /\ idx' = IF it.done THEN idx ELSE idx + 1
    /\ UNCHANGED <<qso, craft, adif, records, builderVars, pagingVars, clientVars>>

\* the loop is over: Ok(qsos)
ParseAdifReturn ==
    /\ pc = "loop"
    /\ idx > Len(records)
    /\ result' = Ok(qsos)
    /\ pc' = "done"
    /\ UNCHANGED <<qso, craft, adif, records, idx, qsos, builderVars, pagingVars, clientVars>>

Next == ToAdif \/ WriteText \/ ParseAdifSplit \/ ParseAdifRecord \/ ParseAdifReturn

Spec == Init /\ [][Next]_vars

(***************************************************************************)
(* QsoRecordBuilder (src/src/models.rs).  A caller makes a builder, calls  *)
(* setters on it in any order and any number of times, then build().  Each *)
(* setter takes the builder by value and returns it; calls records the     *)
(* setter calls made, each as <<setter, arguments>>.                       *)
(***************************************************************************)
\* the largest number of setter calls made on one builder
MaxCalls == 3

\* a setter of an Option field: self.field = Some(value)
SetSome(b, field, value) == [b EXCEPT ![field] = Some(value)]

\* a wrong additional_field: a key already there keeps its value
AdditionalFieldFirstWins(b, key, value) ==
    IF key \in DOMAIN b.additional_fields THEN b
    ELSE [b EXCEPT !.additional_fields = MapInsert(@, key, value)]

\* self.additional_fields.insert(key.into(), value.into())
additional_field(b, key, value) ==
    [b EXCEPT !.additional_fields = MapInsert(@, key, value)]

\* Option::unwrap_or_default / unwrap_or_else
UnwrapOr(opt, default) == IF opt = None THEN default ELSE opt[1]

build(b) ==
    [call |-> UnwrapOr(b.call, <<>>),
     station_callsign |-> UnwrapOr(b.station_callsign, <<>>),
     qso_date |-> UnwrapOr(b.qso_date, FromYmdOpt(1900, 1, 1)[1]),
     time_on |-> UnwrapOr(b.time_on, FromHmsOpt(0, 0, 0)[1]),
     time_off |-> b.time_off,
     band |-> UnwrapOr(b.band, <<>>),
     mode |-> UnwrapOr(b.mode, <<>>),
     freq |-> b.freq,
     rst_sent |-> b.rst_sent,
     rst_rcvd |-> b.rst_rcvd,
     qth |-> b.qth,
     name |-> b.name,
     comment |-> b.comment,
     additional_fields |-> b.additional_fields]

\* the arguments the callers give
CallArgs == {V_call, V_call2, <<>>}

DateArgs == {Date(2024, 1, 15), Date(1900, 1, 1)}

TimeArgs == {Time(14, 30, 0), Time(0, 0, 0)}

KeyArgs == {N_app, N_MyKey}

ValueArgs == {<<"1">>, <<"2">>}

InitBuilder ==
    /\ CodecIdle
    /\ PagingIdle
    /\ ClientIdle
    /\ builder = BuilderNew
    /\ calls = <<>>
    /\ bpc = "building"
    /\ built = None

\* the setter of field is called with value
Setter(setter, field, value) ==
    /\ bpc = "building"
    /\ Len(calls) < MaxCalls
    /\ builder' = SetSome(builder, field, value)
    /\ calls' = Append(calls, <<setter, value>>)
    /\ UNCHANGED <<bpc, built, codecVars, pagingVars, clientVars>>

BuilderCall == \E v \in CallArgs : Setter("call", "call", v)

BuilderStationCallsign == Setter("station_callsign", "station_callsign", V_station)

BuilderDate == \E d \in DateArgs : Setter("date", "qso_date", d)

BuilderTimeOn == \E t \in TimeArgs : Setter("time_on", "time_on", t)

BuilderTimeOff == Setter("time_off", "time_off", Time(15, 0, 0))

BuilderBand == Setter("band", "band", V_band)

BuilderMode == Setter("mode", "mode", V_mode)

BuilderFreq == Setter("freq", "freq", NormF64(FALSE, 142, 0 - 1))

BuilderRstSent == Setter("rst_sent", "rst_sent", V_rst)

BuilderRstRcvd == Setter("rst_rcvd", "rst_rcvd", <<"5", "7">>)

BuilderQth == Setter("qth", "qth", V_qth)

BuilderName == Setter("name", "name", V_name)

BuilderComment == \E v \in {V_hi, <<>>} : Setter("comment", "comment", v)

BuilderAdditionalField ==
    \E k \in KeyArgs, v \in ValueArgs :
        /\ bpc = "building"
        /\ Len(calls) < MaxCalls
        /\ builder' = additional_field(builder, k, v)
        /\ calls' = Append(calls, <<"additional_field", <<k, v>>>>)
        /\ UNCHANGED <<bpc, built, codecVars, pagingVars, clientVars>>

\* build(self): the builder is used up
BuilderBuild ==
    /\ bpc = "building"
    /\ built' = Some(build(builder))
    /\ bpc' = "built"
    /\ UNCHANGED <<builder, calls, codecVars, pagingVars, clientVars>>

NextBuilder ==
    \/ BuilderCall \/ BuilderStationCallsign \/ BuilderDate \/ BuilderTimeOn
    \/ BuilderTimeOff \/ BuilderBand \/ BuilderMode \/ BuilderFreq
    \/ BuilderRstSent \/ BuilderRstRcvd \/ BuilderQth \/ BuilderName
    \/ BuilderComment \/ BuilderAdditionalField \/ BuilderBuild

SpecBuilder == InitBuilder /\ [][NextBuilder]_vars

(***************************************************************************)
(* QrzLogbookClient::fetch_all_qsos (src/src/client.rs) and                *)
(* FetchOptions::to_option_string (src/src/models.rs).  A QSO of the       *)
(* logbook is named by the logid the server holds it under; a reply is the *)
(* FetchResponse fetch_qsos returns for it, or its error.                  *)
(***************************************************************************)
\* let page_size = 250u32
page_size == 250

\* the largest number of replies the server gives to one fetch_all_qsos call
MaxRequests == 3

\* a < b for two u64
U64Less(a, b) ==
    \/ a.cls = "small" /\ b.cls = "small" /\ a.n < b.n
    \/ a.cls = "small" /\ b.cls # "small"
    \/ a.cls = "top" /\ b.cls = "top" /\ a.n > b.n

\* u64's Display
U64Text(u) ==
    IF u.cls = "small" THEN ToDecimal(u.n)
    ELSE SubSeq(UsizeMaxText, 1, 11)
         \o ZeroPad(ToDecimal(DecValue(SubSeq(UsizeMaxText, 12, 20)) - u.n), 9)

\* max_logid + 1: past u64::MAX the addition panics where overflow checks are
\* compiled in, and wraps to 0 where they are not
U64Succ(u, checks) ==
    IF u.cls = "small" THEN Ok(U64(u.n + 1))
    ELSE IF u.n > 0 THEN Ok(UsizeTop(u.n - 1))
    ELSE IF checks THEN Panic("attempt to add with overflow")
    ELSE Ok(U64(0))

\* response.logids.iter().max()
IterMax(logids) ==
    IF logids = <<>> THEN None
    ELSE Some(CHOOSE x \in {logids[i] : i \in 1..Len(logids)} :
                  \A i \in 1..Len(logids) : ~U64Less(x, logids[i]))

RECURSIVE Join(_, _)
\* [String]::join(sep)
Join(parts, sep) ==
    IF parts = <<>> THEN <<>>
    ELSE IF Len(parts) = 1 THEN parts[1]
    ELSE parts[1] \o sep \o Join(Tail(parts), sep)

\* if let Some(v) = opt { options.push(format!("LABEL:{}", v)) }
OptionPart(label, opt) == IF opt = None THEN <<>> ELSE <<label \o <<":">> \o opt[1]>>

\* the Display of an Option<u32>'s, an Option<u64>'s and an Option<NaiveDate>'s
\* value (the date with format("%Y%m%d"))
DisplayU32(opt) == IF opt = None THEN None ELSE Some(ToDecimal(opt[1]))

DisplayU64(opt) == IF opt = None THEN None ELSE Some(U64Text(opt[1]))

DisplayDate(opt) == IF opt = None THEN None ELSE Some(FormatDate(opt[1]))

to_option_string(o) ==
    Join((IF o.all THEN <<<<"A", "L", "L">>>> ELSE <<>>)
         \o OptionPart(<<"B", "A", "N", "D">>, o.band)
         \o OptionPart(<<"M", "O", "D", "E">>, o.mode)
         \o OptionPart(<<"C", "A", "L", "L">>, o.call)
         \o OptionPart(<<"M", "A", "X">>, DisplayU32(o.max))
         \o OptionPart(<<"A", "F", "T", "E", "R", "L", "O", "G", "I", "D">>,
                       DisplayU64(o.after_logid))
         \o OptionPart(<<"D", "A", "T", "E", "F", "R", "O", "M">>, DisplayDate(o.date_from))
         \o OptionPart(<<"D", "A", "T", "E", "T", "O">>, DisplayDate(o.date_to)),
         <<",">>)

\* the page_options of one iteration of the loop
PageOptions(opts, after) ==
    [opts EXCEPT !.max = Some(page_size),
                 !.after_logid = IF U64Less(U64(0), after) THEN Some(after) ELSE None]

\* fetch_qsos(&page_options): the request sent, with the options it spells
FetchRequest(page_options) ==
    [action |-> "FETCH",
     option |-> IF to_option_string(page_options) = <<>> THEN None
                ELSE Some(to_option_string(page_options)),
     page_options |-> page_options]

FetchResponse(count, logids, page) == [count |-> count, logids |-> logids, qsos |-> page]

\* the first n elements of s, or all of them
Take(s, n) == SubSeq(s, 1, IF Len(s) < n THEN Len(s) ELSE n)

\* the server's own answer: at most MAX of its QSOs whose logid is after
\* AFTERLOGID, lowest logids first, with their logids
OwnAnswer(req) ==
    LET o == req.page_options
        after == SelectSeq(store, LAMBDA l : o.after_logid = None \/ U64Less(o.after_logid[1], l))
        page == IF o.max = None THEN after ELSE Take(after, o.max[1])
    IN  Ok(FetchResponse(Len(page), page, page))

\* other replies a call can get: an error, a page without LOGIDS, a page whose
\* LOGIDS holds u64::MAX, a reply with LOGIDS and no ADIF
OtherAnswers(req) ==
    {Err("Auth"), Err("Api: Unexpected response format"),
     Ok(FetchResponse(Len(Take(store, page_size)), <<>>, Take(store, page_size))),
     Ok(FetchResponse(1, <<U64(7), U64Max>>, Take(store, 1))),
     Ok(FetchResponse(0, <<U64(7)>>, <<>>))}

\* the logbooks: logids that follow one another, logids with gaps, a logid 0, and
\* a logid at the end of the word
Consecutive(first, n) == [i \in 1..n |-> U64(first + i - 1)]

Spaced(first, n) == [i \in 1..n |-> U64(first + 2 * (i - 1))]

Stores ==
    {Consecutive(1, n) : n \in {0, 1, page_size - 1, page_size, page_size + 1,
                                2 * page_size, 2 * page_size + 1}}
    \cup {Spaced(2, n) : n \in {page_size, page_size + 1}}
    \cup {Consecutive(0, 3), <<U64Max>>, Append(Consecutive(1, page_size - 1), U64Max)}

\* the options of the callers
OptionInputs ==
    {[FetchOptionsNew EXCEPT !.all = TRUE],
     [FetchOptionsNew EXCEPT !.band = Some(V_band), !.max = Some(10),
                             !.after_logid = Some(U64(5)),
                             !.date_from = Some(Date(2024, 1, 1)),
                             !.date_to = Some(Date(2024, 1, 31))]}

InitPaging ==
    /\ CodecIdle
    /\ BuilderIdle
    /\ ClientIdle
    /\ options \in OptionInputs
    /\ overflow_checks \in BOOLEAN
    /\ store \in Stores
    /\ honest = TRUE
    /\ all_qsos = <<>>
    /\ after_logid = U64(0)
    /\ requests = <<>>
    /\ responses = <<>>
    /\ fpc = "start"
    /\ fresult = NoResult

\* fetch_all_qsos up to the first await: the locals, and the first request
FetchAllCall ==
    /\ fpc = "start"
    /\ all_qsos' = <<>>
    /\ after_logid' = U64(0)
    /\ requests' = <<FetchRequest(PageOptions(options, U64(0)))>>
    /\ fpc' = "waiting"
    /\ UNCHANGED <<options, overflow_checks, store, honest, responses, fresult,
                   codecVars, builderVars, clientVars>>

\* the reply to the request in flight arrives
ServerReply ==
    /\ fpc = "waiting"
    /\ Len(responses) < MaxRequests
    /\ \E r \in {OwnAnswer(requests[Len(requests)])} \cup OtherAnswers(requests[Len(requests)]) :
          /\ responses' = Append(responses, r)
          /\ honest' = (honest /\ r = OwnAnswer(requests[Len(requests)]))
    /\ fpc' = "replied"
    /\ UNCHANGED <<options, overflow_checks, store, all_qsos, after_logid, requests,
                   fresult, codecVars, builderVars, clientVars>>

\* the loop from the reply to the next await or to the return
FetchAllResume ==
    /\ fpc = "replied"
    /\ LET r == responses[Len(responses)]
           response == r.val
           max_logid == IterMax(response.logids)
           next == IF max_logid = None THEN Ok(after_logid)
                   ELSE U64Succ(max_logid[1], overflow_checks)
       IN  IF ~IsOk(r)
           THEN /\ fresult' = r
                /\ fpc' = "done"
                /\ UNCHANGED <<all_qsos, after_logid, requests>>
           ELSE IF response.qsos = <<>>
           THEN /\ fresult' = Ok(all_qsos)
                /\ fpc' = "done"
                /\ UNCHANGED <<all_qsos, after_logid, requests>>
           ELSE IF ~IsOk(next)
           THEN /\ fresult' = next
                /\ fpc' = "done"
                /\ UNCHANGED <<all_qsos, after_logid, requests>>
           ELSE /\ after_logid' = next.val
                /\ all_qsos' = all_qsos \o response.qsos
                /\ IF Len(response.qsos) < page_size
                   THEN /\ fresult' = Ok(all_qsos')
                        /\ fpc' = "done"
                        /\ UNCHANGED requests
                   ELSE /\ requests' = Append(requests,
                                               FetchRequest(PageOptions(options, next.val)))
                        /\ fpc' = "waiting"
                        /\ UNCHANGED fresult
    /\ UNCHANGED <<options, overflow_checks, store, honest, responses,
                   codecVars, builderVars, clientVars>>

NextPaging == FetchAllCall \/ ServerReply \/ FetchAllResume

SpecPaging == InitPaging /\ [][NextPaging]_vars

(***************************************************************************)
(* QrzLogbookClient::new (src/src/client.rs).                              *)
(***************************************************************************)
\* str::contains
Contains(s, pat) == Find(s, pat) < Len(s)

\* the string of n characters c
Repeat(c, n) == [i \in 1..n |-> c]

\* Client::builder().user_agent(&user_agent).build(): the user agent becomes a
\* header value, which holds no control character other than the tab; with one,
\* build() returns the builder's error
HeaderValueOk(s) == \A i \in 1..Len(s) : s[i] \notin {"\n", "\r"}

GenericAgents == {<<"p", "y", "t", "h", "o", "n", "-", "r", "e", "q", "u", "e", "s", "t", "s">>, <<"n", "o", "d", "e", "-", "f", "e", "t", "c", "h">>}

GenericAgentNames == {<<"c", "u", "r", "l">>, <<"w", "g", "e", "t">>}

new(key, agent) ==
    IF key = <<>> \/ ByteLen(key) < 10 THEN Err("InvalidKey")
    ELSE IF agent = <<>> \/ ByteLen(agent) > 128 THEN Err("InvalidUserAgent")
    ELSE
    LET lower_ua == ToLowercase(agent)
    IN  IF (\E g \in GenericAgents : Contains(lower_ua, g)) \/ lower_ua \in GenericAgentNames
        THEN Err("InvalidUserAgent")
        ELSE IF ~HeaderValueOk(agent) THEN Err("Http")
        ELSE Ok([api_key |-> key, user_agent |-> agent])

\* the keys and the user agents of the callers: empty, short, at the limits,
\* generic in several letter cases, with characters of two bytes, with a newline
KeyInputs ==
    {<<>>, <<"k">>, <<"t", "e", "s", "t", "-", "k", "e", "y", "1">>, <<"t", "e", "s", "t", "-", "k", "e", "y", "1", "2">>, <<"v", "a", "l", "i", "d", "-", "a", "p", "i", "-", "k", "e", "y", "-", "1", "2", "3", "4", "5">>, <<"c", "l", "U+E9", "-", "1", "2", "3", "4", "5">>, Repeat("U+E9", 5), Repeat("U+E9", 10)}

AgentInputs ==
    {<<>>, <<"T", "e", "s", "t", "A", "p", "p", "/", "1", ".", "0", ".", "0", " ", "(", "N", "0", "C", "A", "L", "L", ")">>, Repeat("a", 128), Repeat("a", 129),
     <<"p", "y", "t", "h", "o", "n", "-", "r", "e", "q", "u", "e", "s", "t", "s">>, <<"P", "y", "t", "h", "o", "n", "-", "R", "e", "q", "u", "e", "s", "t", "s", "/", "2", ".", "3", "1">>, <<"m", "y", " ", "n", "o", "d", "e", "-", "f", "e", "t", "c", "h", " ", "a", "p", "p">>, <<"N", "O", "D", "E", "-", "F", "E", "T", "C", "H">>,
     <<"c", "u", "r", "l">>, <<"C", "U", "R", "L">>, <<"W", "g", "e", "t">>, <<"w", "g", "e", "t">>, <<"c", "u", "r", "l", "/", "8", ".", "0">>, <<"w", "g", "e", "t", "2">>,
     <<"M", "y", "\n", "A", "p", "p", "/", "1", ".", "0">>, <<"C", "a", "f", "U+E9", "/", "1", ".", "0", " ", "(", "N", "0", "C", "A", "L", "L", ")">>,
     Repeat("U+E9", 30) \o Repeat("a", 70), Repeat("U+E9", 64), Repeat("U+E9", 128)}

(***************************************************************************)
(* The replies of the server (src/src/client.rs): parse_response_params,   *)
(* with urlencoding::decode, and the four parse_*_response methods.  The   *)
(* errors are QrzLogbookError values: the variant, the reason of an Api    *)
(* error (a text of the reply or of the program), the message of an        *)
(* AdifParse error.                                                        *)
(***************************************************************************)
ApiError(reason) == Err([variant |-> "Api", reason |-> reason, msg |-> ""])

AuthError == Err([variant |-> "Auth", reason |-> <<>>, msg |-> ""])

\* the error parse_adif returned, as the QrzLogbookError::AdifParse it is
AdifParseError(msg) == Err([variant |-> "AdifParse", reason |-> <<>>, msg |-> msg])

\* the characters of the codes 32 to 126 ("U+5C" is the backslash, "U+60" the grave accent)
AsciiTable ==
    <<" ", "!", "\"", "#", "$", "%", "&", "'", "(", ")", "*", "+", ",", "-", ".", "/", "0",
      "1", "2", "3", "4", "5", "6", "7", "8", "9", ":", ";", "<", "=", ">", "?", "@", "A", "B",
      "C", "D", "E", "F", "G", "H", "I", "J", "K", "L", "M", "N", "O", "P", "Q", "R", "S", "T",
      "U", "V", "W", "X", "Y", "Z", "[", "U+5C", "]", "^", "_", "U+60", "a", "b", "c", "d", "e",
      "f", "g", "h", "i", "j", "k", "l", "m", "n", "o", "p", "q", "r", "s", "t", "u", "v", "w",
      "x", "y", "z", "{", "|", "}", "~">>

HexLetters == <<"A", "B", "C", "D", "E", "F">>

IsHex(c) == IsDigit(c) \/ \E i \in 1..6 : HexLetters[i] = UpperChar(c)

\* from_hex_digit
HexVal(c) ==
    IF IsDigit(c) THEN DigitVal(c) ELSE 9 + CHOOSE i \in 1..6 : HexLetters[i] = UpperChar(c)

\* the character of a code below 128; the control characters other than tab,
\* newline and return, which no text of the model spells, are one character
ByteChar(code) ==
    IF code >= 32 /\ code <= 126 THEN AsciiTable[code - 31]
    ELSE IF code = 9 THEN "\t"
    ELSE IF code = 10 THEN "\n"
    ELSE IF code = 13 THEN "\r"
    ELSE "U+1"

\* a '%' followed by two hex digits starts at the 1-based position i of s; two
\* such escapes never overlap, a hex digit not being a '%'
EscapeAt(s, i) ==
    i >= 1 /\ i + 2 <= Len(s) /\ s[i] = "%" /\ IsHex(s[i + 1]) /\ IsHex(s[i + 2])

\* decode_binary: each escape becomes its byte (b), every other character stays
\* (c); a '%' that starts no escape stays as it is
DecodeBinary(s) ==
    SelectSeq([i \in 1..Len(s) |->
                  IF EscapeAt(s, i)
                  THEN [b |-> 16 * HexVal(s[i + 1]) + HexVal(s[i + 2]), c |-> ""]
                  ELSE IF EscapeAt(s, i - 1) \/ EscapeAt(s, i - 2)
                  THEN [b |-> 0 - 2, c |-> ""]
                  ELSE [b |-> 0 - 1, c |-> s[i]]],
              LAMBDA x : x.b # 0 - 2)

\* UTF-8: a continuation byte, the length a lead byte announces (0: no lead
\* byte), the range of the byte after a lead byte
IsContinuation(b) == b >= 128 /\ b <= 191

LeadLen(b) ==
    IF b >= 194 /\ b <= 223 THEN 2
    ELSE IF b >= 224 /\ b <= 239 THEN 3
    ELSE IF b >= 240 /\ b <= 244 THEN 4
    ELSE 0

SecondOk(lead, b) ==
    IF lead = 224 THEN b >= 160 /\ b <= 191
    ELSE IF lead = 237 THEN b >= 128 /\ b <= 159
    ELSE IF lead = 240 THEN b >= 144 /\ b <= 191
    ELSE IF lead = 244 THEN b >= 128 /\ b <= 143
    ELSE IsContinuation(b)

\* the bytes from position j of t are one character of several bytes
WellLed(t, j) ==
    /\ j >= 1 /\ j <= Len(t)
    /\ LeadLen(t[j].b) > 0
    /\ j + LeadLen(t[j].b) - 1 <= Len(t)
    /\ \A k \in 1..(LeadLen(t[j].b) - 1) : IsContinuation(t[j + k].b)
    /\ SecondOk(t[j].b, t[j + 1].b)

\* String::from_utf8 accepts the decoded bytes
ValidUtf8(t) ==
    \A j \in 1..Len(t) :
        t[j].b >= 128
            => IF IsContinuation(t[j].b)
               THEN \E d \in 1..3 : WellLed(t, j - d) /\ LeadLen(t[j - d].b) > d
               ELSE WellLed(t, j)

\* the character the bytes from position j spell: "U+E9" for C3 A9; any other
\* character of two, three or four bytes is named by its length
DecodedChar(t, j) ==
    IF t[j].b < 0 THEN t[j].c
    ELSE IF t[j].b < 128 THEN ByteChar(t[j].b)
    ELSE IF t[j].b = 195 /\ t[j + 1].b = 169 THEN "U+E9"
    ELSE IF LeadLen(t[j].b) = 2 THEN "U+2"
    ELSE IF LeadLen(t[j].b) = 3 THEN "U+3"
    ELSE "U+4"

\* the positions of t where a character starts
CharStarts(t) == SelectSeq([j \in 1..Len(t) |-> j], LAMBDA j : ~IsContinuation(t[j].b))

\* String::from_utf8 of the decoded bytes t
FromUtf8(t, starts) ==
    IF ~ValidUtf8(t) THEN Err("FromUtf8Error")
    ELSE Ok([k \in 1..Len(starts) |-> DecodedChar(t, starts[k])])

\* urlencoding::decode
UrlDecode(s) == FromUtf8(DecodeBinary(s), CharStarts(DecodeBinary(s)))

\* str::split_once('='), as an Option of the pair
SplitOnce(pair, sep) ==
    LET i == Find(pair, sep)
    IN  IF i < Len(pair) THEN Some(<<Slice(pair, 0, i), Slice(pair, i + Len(sep), Len(pair))>>)
        ELSE None

\* the pairs of text that have an '=', in order
KeyValues(text) ==
    LET pairs == Split(text, <<"&">>)
        with == SelectSeq(pairs, LAMBDA x : SplitOnce(x, <<"=">>) # None)
    IN  [i \in 1..Len(with) |-> SplitOnce(with[i], <<"=">>)[1]]

\* the table of the pairs kv: each key with the value of its last pair
TableOfPairs(kv) ==
    [k \in {kv[i][1] : i \in 1..Len(kv)} |->
        kv[CHOOSE i \in 1..Len(kv) : kv[i][1] = k /\ \A j \in 1..Len(kv) : kv[j][1] = k => j <= i][2]]

\* the decoded key and the decoded value of each pair, as Results
DecodePairs(kv) == [i \in 1..Len(kv) |-> <<UrlDecode(kv[i][1]), UrlDecode(kv[i][2])>>]

\* the `?` on each decode, then params.insert(key, value)
DecodedParams(d) ==
    IF \E i \in 1..Len(d) : ~IsOk(d[i][1]) \/ ~IsOk(d[i][2])
    THEN ApiError(<<"I", "n", "v", "a", "l", "i", "d", " ", "U", "R", "L", " ", "e", "n", "c", "o", "d", "i", "n", "g", " ", "i", "n", " ", "r", "e", "s", "p", "o", "n", "s", "e">>)
    ELSE Ok(TableOfPairs([i \in 1..Len(d) |-> <<d[i][1].val, d[i][2].val>>]))

parse_response_params(text) == DecodedParams(DecodePairs(KeyValues(text)))

parse_data_params(data) == Ok(TableOfPairs(KeyValues(data)))

P_RESULT == <<"R", "E", "S", "U", "L", "T">>

P_REASON == <<"R", "E", "A", "S", "O", "N">>

P_LOGID == <<"L", "O", "G", "I", "D">>

P_COUNT == <<"C", "O", "U", "N", "T">>

P_LOGIDS == <<"L", "O", "G", "I", "D", "S">>

P_ADIF == <<"A", "D", "I", "F">>

P_DATA == <<"D", "A", "T", "A">>

R_OK == <<"O", "K">>

R_PARTIAL == <<"P", "A", "R", "T", "I", "A", "L">>

R_FAIL == <<"F", "A", "I", "L">>

R_AUTH == <<"A", "U", "T", "H">>

\* u32::MAX in decimal
U32MaxText == <<"4", "2", "9", "4", "9", "6", "7", "2", "9", "5">>

\* the range of u32 on a parsed number r of the text s (a value of ten digits
\* is kept as "large")
U32Range(s, r) ==
    IF ~IsOk(r) THEN r
    ELSE IF DigitsLess(U32MaxText, StripZeros(IF s[1] = "+" THEN Tail(s) ELSE s))
    THEN Err("PosOverflow")
    ELSE r

\* str::parse::<u32>
ParseU32(s) == U32Range(s, ParseUsize(s))

\* a wrong reason: the REASON of the reply is not looked at
FailReasonUnknown(params) == <<"U", "n", "k", "n", "o", "w", "n", " ", "e", "r", "r", "o", "r">>

\* params.get("REASON").map(|s| s.as_str()).unwrap_or("Unknown error")
FailReason(params) == UnwrapOr(MapGet(params, P_REASON), <<"U", "n", "k", "n", "o", "w", "n", " ", "e", "r", "r", "o", "r">>)

\* the arms of the match for a RESULT that is not a success
NotOk(params) ==
    IF MapGet(params, P_RESULT) = Some(R_FAIL) THEN ApiError(FailReason(params))
    ELSE IF MapGet(params, P_RESULT) = Some(R_AUTH) THEN AuthError
    ELSE ApiError(<<"U", "n", "e", "x", "p", "e", "c", "t", "e", "d", " ", "r", "e", "s", "p", "o", "n", "s", "e", " ", "f", "o", "r", "m", "a", "t">>)

\* params.get("COUNT").unwrap_or(&default).parse()
CountOf(params, default) == ParseU32(UnwrapOr(MapGet(params, P_COUNT), default))

\* filter_map(|s| s.trim().parse().ok()): the parts that are numbers, parsed
ParsedLogids(good) == [i \in 1..Len(good) |-> ParseUsize(Trim(good[i])).val]

\* logids_str.split(',').filter_map(|s| s.trim().parse().ok()).collect(), or
\* Vec::new() without LOGIDS
LogidsOf(params) ==
    IF MapGet(params, P_LOGIDS) = None THEN <<>>
    ELSE ParsedLogids(SelectSeq(Split(MapGet(params, P_LOGIDS)[1], <<",">>),
                                LAMBDA x : IsOk(ParseUsize(Trim(x)))))

InsertResponse(logid, count) == [logid |-> logid, count |-> count]

DeleteResponse(deleted_count, not_found_logids) ==
    [deleted_count |-> deleted_count, not_found_logids |-> not_found_logids]

StatusResponse(data) == [data |-> data]

\* the match of parse_insert_response on the parsed parameters
InsertOf(params, logid, count) ==
    IF ~IsOk(params) THEN params
    ELSE IF MapGet(params.val, P_RESULT) # Some(R_OK) THEN NotOk(params.val)
    ELSE IF MapGet(params.val, P_LOGID) = None THEN ApiError(<<"M", "i", "s", "s", "i", "n", "g", " ", "L", "O", "G", "I", "D", " ", "i", "n", " ", "r", "e", "s", "p", "o", "n", "s", "e">>)
    ELSE IF ~IsOk(logid) THEN ApiError(<<"I", "n", "v", "a", "l", "i", "d", " ", "L", "O", "G", "I", "D", " ", "f", "o", "r", "m", "a", "t">>)
    ELSE IF ~IsOk(count) THEN ApiError(<<"I", "n", "v", "a", "l", "i", "d", " ", "C", "O", "U", "N", "T", " ", "f", "o", "r", "m", "a", "t">>)
    ELSE Ok(InsertResponse(logid.val, count.val))

\* params.get("LOGID")...parse(), read only when LOGID is there
LogidOf(params) == ParseUsize(MapGet(params.val, P_LOGID)[1])

InsertOfParams(params) == InsertOf(params, LogidOf(params), CountOf(params.val, <<"1">>))

parse_insert_response(text) == InsertOfParams(parse_response_params(text))

\* the match of parse_delete_response on the parsed parameters
DeleteOf(params, count) ==
    IF ~IsOk(params) THEN params
    ELSE IF MapGet(params.val, P_RESULT) \notin {Some(R_OK), Some(R_PARTIAL)}
    THEN NotOk(params.val)
    ELSE IF ~IsOk(count) THEN ApiError(<<"I", "n", "v", "a", "l", "i", "d", " ", "C", "O", "U", "N", "T", " ", "f", "o", "r", "m", "a", "t">>)
    ELSE Ok(DeleteResponse(count.val, LogidsOf(params.val)))

DeleteOfParams(params) == DeleteOf(params, CountOf(params.val, <<"0">>))

parse_delete_response(text) == DeleteOfParams(parse_response_params(text))

\* the match of parse_status_response on the parsed parameters
StatusOf(params) ==
    IF ~IsOk(params) THEN params
    ELSE IF MapGet(params.val, P_RESULT) # Some(R_OK) THEN NotOk(params.val)
    ELSE IF MapGet(params.val, P_DATA) = None THEN Ok(StatusResponse(EmptyMap))
    ELSE Ok(StatusResponse(parse_data_params(MapGet(params.val, P_DATA)[1]).val))

parse_status_response(text) == StatusOf(parse_response_params(text))

\* the match of parse_fetch_response on the parsed parameters; decoded is the
\* result of parse_adif, read only when ADIF is there
FetchOf(params, count, decoded) ==
    IF ~IsOk(params) THEN params
    ELSE IF MapGet(params.val, P_RESULT) # Some(R_OK) THEN NotOk(params.val)
    ELSE IF ~IsOk(count) THEN ApiError(<<"I", "n", "v", "a", "l", "i", "d", " ", "C", "O", "U", "N", "T", " ", "f", "o", "r", "m", "a", "t">>)
    ELSE IF MapGet(params.val, P_ADIF) = None
    THEN Ok(FetchResponse(count.val, LogidsOf(params.val), <<>>))
    ELSE IF IsErr(decoded) THEN AdifParseError(decoded.val)
    ELSE IF ~IsOk(decoded) THEN decoded
    ELSE Ok(FetchResponse(count.val, LogidsOf(params.val), decoded.val))

\* parse_adif(adif_data)
AdifOf(params) == parse_adif(MapGet(params.val, P_ADIF)[1])

FetchOfParams(params) == FetchOf(params, CountOf(params.val, <<"0">>), AdifOf(params))

parse_fetch_response(text) == FetchOfParams(parse_response_params(text))

\* replies: every RESULT, with and without LOGID, COUNT, LOGIDS, REASON and DATA, well
\* and badly formed, escaped and not
EnvelopeReplies ==
    {<<"R", "E", "S", "U", "L", "T", "=", "O", "K", "&", "L", "O", "G", "I", "D", "=", "1",
       "3", "0", "8", "7", "7", "8", "2", "5", "&", "C", "O", "U", "N", "T", "=", "1">>,
     <<"R", "E", "S", "U", "L", "T", "=", "O", "K", "&", "L", "O", "G", "I", "D", "=", "5">>,
     <<"R", "E", "S", "U", "L", "T", "=", "O", "K", "&", "C", "O", "U", "N", "T", "=", "2">>,
     <<"R", "E", "S", "U", "L", "T", "=", "O", "K">>,
     <<"R", "E", "S", "U", "L", "T", "=", "O", "K", "&", "L", "O", "G", "I", "D", "=", "a",
       "b", "c", "&", "C", "O", "U", "N", "T", "=", "1">>,
     <<"R", "E", "S", "U", "L", "T", "=", "O", "K", "&", "L", "O", "G", "I", "D", "=", "5",
       "&", "C", "O", "U", "N", "T", "=", "x">>,
     <<"R", "E", "S", "U", "L", "T", "=", "O", "K", "&", "L", "O", "G", "I", "D", "=", "&",
       "C", "O", "U", "N", "T", "=", "1">>,
     <<"R", "E", "S", "U", "L", "T", "=", "O", "K", "&", "L", "O", "G", "I", "D", "=", "7",
       "&", "C", "O", "U", "N", "T", "=", "4", "2", "9", "4", "9", "6", "7", "2", "9", "5">>,
     <<"R", "E", "S", "U", "L", "T", "=", "O", "K", "&", "L", "O", "G", "I", "D", "=", "7",
       "&", "C", "O", "U", "N", "T", "=", "4", "2", "9", "4", "9", "6", "7", "2", "9", "6">>,
     <<"R", "E", "S", "U", "L", "T", "=", "O", "K", "&", "C", "O", "U", "N", "T", "=", "-",
       "1">>,
     <<"R", "E", "S", "U", "L", "T", "=", "O", "K", "&", "L", "O", "G", "I", "D", "=", "1",
       "8", "4", "4", "6", "7", "4", "4", "0", "7", "3", "7", "0", "9", "5", "5", "1", "6",
       "1", "5">>,
     <<"R", "E", "S", "U", "L", "T", "=", "O", "K", "&", "L", "O", "G", "I", "D", "=", "1",
       "8", "4", "4", "6", "7", "4", "4", "0", "7", "3", "7", "0", "9", "5", "5", "1", "6",
       "1", "6">>,
     <<"R", "E", "S", "U", "L", "T", "=", "O", "K", "&", "L", "O", "G", "I", "D", "=", "+",
       "8", "&", "C", "O", "U", "N", "T", "=", "+", "1">>,
     <<"R", "E", "S", "U", "L", "T", "=", "P", "A", "R", "T", "I", "A", "L", "&", "C", "O",
       "U", "N", "T", "=", "1", "&", "L", "O", "G", "I", "D", "S", "=", "1", "2", "3", "4",
       "6">>,
     <<"R", "E", "S", "U", "L", "T", "=", "P", "A", "R", "T", "I", "A", "L">>,
     <<"R", "E", "S", "U", "L", "T", "=", "P", "A", "R", "T", "I", "A", "L", "&", "L", "O",
       "G", "I", "D", "=", "3", "&", "C", "O", "U", "N", "T", "=", "m", "a", "n", "y">>,
     <<"R", "E", "S", "U", "L", "T", "=", "O", "K", "&", "C", "O", "U", "N", "T", "=", "0",
       "&", "L", "O", "G", "I", "D", "S", "=", "1", ",", " ", "x", ",", "3", ",", ",", "+",
       "4">>,
     <<"R", "E", "S", "U", "L", "T", "=", "F", "A", "I", "L", "&", "R", "E", "A", "S", "O",
       "N", "=", "I", "n", "v", "a", "l", "i", "d", "+", "Q", "S", "O", "+", "d", "a", "t",
       "a">>,
     <<"R", "E", "S", "U", "L", "T", "=", "F", "A", "I", "L">>,
     <<"R", "E", "S", "U", "L", "T", "=", "F", "A", "I", "L", "&", "R", "E", "A", "S", "O",
       "N", "=", "w", "r", "o", "n", "g", "%", "2", "0", "s", "t", "a", "t", "i", "o", "n">>,
     <<"R", "E", "S", "U", "L", "T", "=", "F", "A", "I", "L", "&", "R", "E", "A", "S", "O",
       "N", "=">>,
     <<"R", "E", "S", "U", "L", "T", "=", "F", "A", "I", "L", "&", "R", "E", "A", "S", "O",
       "N", "=", "%", "F", "F">>,
     <<"R", "E", "S", "U", "L", "T", "=", "F", "A", "I", "L", "&", "R", "E", "A", "S", "O",
       "N", "=", "c", "a", "f", "%", "C", "3", "%", "A", "9", "&", "L", "O", "G", "I", "D",
       "=", "1", "&", "C", "O", "U", "N", "T", "=", "1">>,
     <<"R", "E", "S", "U", "L", "T", "=", "A", "U", "T", "H">>,
     <<"R", "E", "S", "U", "L", "T", "=", "A", "U", "T", "H", "&", "R", "E", "A", "S", "O",
       "N", "=", "e", "x", "p", "i", "r", "e", "d">>,
     <<"R", "E", "S", "U", "L", "T", "=", "o", "k", "&", "L", "O", "G", "I", "D", "=", "1">>,
     <<"R", "E", "S", "U", "L", "T", "=", "O", "K", "\n">>,
     <<"R", "E", "S", "U", "L", "T", "=", "&", "L", "O", "G", "I", "D", "=", "1">>,
     <<>>,
     <<"C", "O", "U", "N", "T", "=", "1", "&", "L", "O", "G", "I", "D", "=", "2">>,
     <<"S", "T", "A", "T", "U", "S", "=", "O", "K", "&", "L", "O", "G", "I", "D", "=", "1">>,
     <<"R", "E", "S", "U", "L", "T", "%", "3", "D", "O", "K", "&", "L", "O", "G", "I", "D",
       "=", "1">>,
     <<"%", "5", "2", "E", "S", "U", "L", "T", "=", "O", "K", "&", "L", "O", "G", "I", "D",
       "=", "1">>,
     <<"R", "E", "S", "U", "L", "T", "=", "%", "4", "F", "K", "&", "L", "O", "G", "I", "D",
       "=", "1">>,
     <<"R", "E", "S", "U", "L", "T", "=", "%", "4", "f", "K", "&", "L", "O", "G", "I", "D",
       "=", "1", "&", "C", "O", "U", "N", "T", "=", "%", "3", "1">>,
     <<"R", "E", "S", "U", "L", "T", "=", "F", "A", "I", "L", "&", "R", "E", "S", "U", "L",
       "T", "=", "O", "K", "&", "L", "O", "G", "I", "D", "=", "1">>,
     <<"R", "E", "S", "U", "L", "T", "=", "O", "K", "&", "R", "E", "S", "U", "L", "T", "=",
       "A", "U", "T", "H">>,
     <<"R", "E", "S", "U", "L", "T", "=", "O", "K", "&", "L", "O", "G", "I", "D", "=", "1",
       "&", "x", "=", "%", "C", "3">>,
     <<"R", "E", "S", "U", "L", "T", "=", "O", "K", "&", "L", "O", "G", "I", "D", "=", "1",
       "&", "x", "=", "%", "A", "9", "=">>,
     <<"R", "E", "S", "U", "L", "T", "=", "O", "K", "&", "L", "O", "G", "I", "D", "=", "1",
       "&", "%", "E", "2", "%", "8", "2", "%", "A", "C", "=", "%", "F", "0", "%", "9", "F",
       "%", "9", "3", "%", "B", "B", "&", "y", "=", "%", "z", "z", "%", "4">>,
     <<"R", "E", "S", "U", "L", "T", "=", "O", "K", "&", "D", "A", "T", "A", "=", "t", "o",
       "t", "a", "l", "_", "q", "s", "o", "s", "%", "3", "D", "1", "2", "3", "4", "%", "2",
       "6", "c", "o", "n", "f", "i", "r", "m", "e", "d", "%", "3", "D", "5", "6", "7", "%",
       "2", "6", "d", "x", "c", "c", "_", "t", "o", "t", "a", "l", "%", "3", "D", "8", "9">>,
     <<"R", "E", "S", "U", "L", "T", "=", "O", "K", "&", "D", "A", "T", "A", "=">>,
     <<"R", "E", "S", "U", "L", "T", "=", "F", "A", "I", "L", "&", "D", "A", "T", "A", "=",
       "a", "%", "3", "D", "1", "&", "R", "E", "A", "S", "O", "N", "=", "n", "o", "+", "b",
       "o", "o", "k">>}

\* replies with ADIF: records that decode, records that do not, escaped and not
AdifReplies ==
    {<<"R", "E", "S", "U", "L", "T", "=", "O", "K", "&", "C", "O", "U", "N", "T", "=", "1",
       "&", "L", "O", "G", "I", "D", "S", "=", "1", "2", "3", "4", "5", "&", "A", "D", "I",
       "F", "=", "%", "3", "C", "c", "a", "l", "l", "%", "3", "A", "4", "%", "3", "E", "W",
       "1", "A", "W", "%", "3", "C", "s", "t", "a", "t", "i", "o", "n", "_", "c", "a", "l",
       "l", "s", "i", "g", "n", "%", "3", "A", "5", "%", "3", "E", "K", "1", "A", "B", "C",
       "%", "3", "C", "q", "s", "o", "_", "d", "a", "t", "e", "%", "3", "A", "8", "%", "3",
       "E", "2", "0", "2", "4", "0", "1", "1", "5", "%", "3", "C", "t", "i", "m", "e", "_",
       "o", "n", "%", "3", "A", "4", "%", "3", "E", "1", "4", "3", "0", "%", "3", "C", "b",
       "a", "n", "d", "%", "3", "A", "3", "%", "3", "E", "2", "0", "m", "%", "3", "C", "m",
       "o", "d", "e", "%", "3", "A", "3", "%", "3", "E", "S", "S", "B", "%", "3", "C", "e",
       "o", "r", "%", "3", "E">>,
     <<"R", "E", "S", "U", "L", "T", "=", "O", "K", "&", "L", "O", "G", "I", "D", "S", "=",
       "1", ",", "2", "&", "A", "D", "I", "F", "=", "<", "c", "a", "l", "l", ":", "4", ">",
       "W", "1", "A", "W", "<", "s", "t", "a", "t", "i", "o", "n", "_", "c", "a", "l", "l",
       "s", "i", "g", "n", ":", "5", ">", "K", "1", "A", "B", "C", "<", "q", "s", "o", "_",
       "d", "a", "t", "e", ":", "8", ">", "2", "0", "2", "4", "0", "1", "1", "5", "<", "t",
       "i", "m", "e", "_", "o", "n", ":", "4", ">", "1", "4", "3", "0", "<", "b", "a", "n",
       "d", ":", "3", ">", "2", "0", "m", "<", "m", "o", "d", "e", ":", "3", ">", "S", "S",
       "B", "<", "e", "o", "r", ">", "\n", "<", "c", "a", "l", "l", ":", "6", ">", "V", "E",
       "3", "X", "Y", "Z", "<", "s", "t", "a", "t", "i", "o", "n", "_", "c", "a", "l", "l",
       "s", "i", "g", "n", ":", "5", ">", "K", "1", "A", "B", "C", "<", "q", "s", "o", "_",
       "d", "a", "t", "e", ":", "8", ">", "2", "0", "2", "4", "0", "1", "1", "6", "<", "t",
       "i", "m", "e", "_", "o", "n", ":", "6", ">", "0", "9", "1", "5", "0", "0", "<", "b",
       "a", "n", "d", ":", "3", ">", "4", "0", "m", "<", "m", "o", "d", "e", ":", "2", ">",
       "C", "W", "<", "e", "o", "r", ">", "\n">>,
     <<"R", "E", "S", "U", "L", "T", "=", "O", "K", "&", "C", "O", "U", "N", "T", "=", "1",
       "&", "A", "D", "I", "F", "=", "%", "3", "C", "c", "a", "l", "l", "%", "3", "A", "4",
       "%", "3", "E", "W", "1", "A", "W", "%", "3", "C", "s", "t", "a", "t", "i", "o", "n",
       "_", "c", "a", "l", "l", "s", "i", "g", "n", "%", "3", "A", "5", "%", "3", "E", "K",
       "1", "A", "B", "C", "%", "3", "C", "q", "s", "o", "_", "d", "a", "t", "e", "%", "3",
       "A", "8", "%", "3", "E", "2", "0", "2", "4", "1", "3", "0", "1", "%", "3", "C", "t",
       "i", "m", "e", "_", "o", "n", "%", "3", "A", "4", "%", "3", "E", "1", "4", "3", "0",
       "%", "3", "C", "b", "a", "n", "d", "%", "3", "A", "3", "%", "3", "E", "2", "0", "m",
       "%", "3", "C", "m", "o", "d", "e", "%", "3", "A", "3", "%", "3", "E", "S", "S", "B",
       "%", "3", "C", "e", "o", "r", "%", "3", "E">>,
     <<"R", "E", "S", "U", "L", "T", "=", "O", "K", "&", "C", "O", "U", "N", "T", "=", "x",
       "&", "A", "D", "I", "F", "=", "%", "3", "C", "c", "a", "l", "l", "%", "3", "A", "4",
       "%", "3", "E", "W", "1", "A", "W", "%", "3", "C", "e", "o", "r", "%", "3", "E">>,
     <<"R", "E", "S", "U", "L", "T", "=", "O", "K", "&", "A", "D", "I", "F", "=", "%", "3",
       "C", "c", "a", "l", "l", "%", "3", "A", "4", "%", "3", "E", "W", "1", "A", "W", "%",
       "3", "C", "e", "o", "r", "%", "3", "E">>,
     <<"R", "E", "S", "U", "L", "T", "=", "O", "K", "&", "A", "D", "I", "F", "=">>,
     <<"R", "E", "S", "U", "L", "T", "=", "O", "K", "&", "C", "O", "U", "N", "T", "=", "1",
       "&", "A", "D", "I", "F", "=", "%", "3", "C", "c", "a", "l", "l", "%", "3", "A", "4",
       "%", "3", "E", "W", "1", "A", "W", "%", "3", "C", "s", "t", "a", "t", "i", "o", "n",
       "_", "c", "a", "l", "l", "s", "i", "g", "n", "%", "3", "A", "5", "%", "3", "E", "K",
       "1", "A", "B", "C", "%", "3", "C", "q", "s", "o", "_", "d", "a", "t", "e", "%", "3",
       "A", "8", "%", "3", "E", "2", "0", "2", "4", "0", "1", "1", "5", "%", "3", "C", "t",
       "i", "m", "e", "_", "o", "n", "%", "3", "A", "4", "%", "3", "E", "1", "4", "3", "0",
       "%", "3", "C", "b", "a", "n", "d", "%", "3", "A", "3", "%", "3", "E", "2", "0", "m",
       "%", "3", "C", "m", "o", "d", "e", "%", "3", "A", "3", "%", "3", "E", "S", "S", "B",
       "%", "3", "C", "c", "o", "m", "m", "e", "n", "t", "%", "3", "A", "4", "%", "3", "E",
       "c", "a", "f", "%", "C", "3", "%", "A", "9", "%", "3", "C", "e", "o", "r", "%", "3",
       "E">>,
     <<"R", "E", "S", "U", "L", "T", "=", "O", "K", "&", "C", "O", "U", "N", "T", "=", "1",
       "&", "A", "D", "I", "F", "=", "%", "3", "C", "c", "a", "l", "l", "%", "3", "A", "4",
       "%", "3", "E", "W", "1", "A", "W", "%", "3", "C", "s", "t", "a", "t", "i", "o", "n",
       "_", "c", "a", "l", "l", "s", "i", "g", "n", "%", "3", "A", "5", "%", "3", "E", "K",
       "1", "A", "B", "C", "%", "3", "C", "q", "s", "o", "_", "d", "a", "t", "e", "%", "3",
       "A", "8", "%", "3", "E", "2", "0", "2", "4", "0", "1", "1", "5", "%", "3", "C", "t",
       "i", "m", "e", "_", "o", "n", "%", "3", "A", "4", "%", "3", "E", "1", "4", "3", "0",
       "%", "3", "C", "b", "a", "n", "d", "%", "3", "A", "3", "%", "3", "E", "2", "0", "m",
       "%", "3", "C", "m", "o", "d", "e", "%", "3", "A", "3", "%", "3", "E", "S", "S", "B",
       "%", "3", "C", "c", "o", "m", "m", "e", "n", "t", "%", "3", "A", "1", "8", "4", "4",
       "6", "7", "4", "4", "0", "7", "3", "7", "0", "9", "5", "5", "1", "6", "1", "5", "%",
       "3", "E", "h", "i", "%", "3", "C", "e", "o", "r", "%", "3", "E">>,
     <<"R", "E", "S", "U", "L", "T", "=", "F", "A", "I", "L", "&", "R", "E", "A", "S", "O",
       "N", "=", "n", "o", "n", "e", "&", "A", "D", "I", "F", "=", "%", "3", "C", "c", "a",
       "l", "l", "%", "3", "A", "4", "%", "3", "E", "W", "1", "A", "W", "%", "3", "C", "e",
       "o", "r", "%", "3", "E">>,
     <<"R", "E", "S", "U", "L", "T", "=", "A", "U", "T", "H", "&", "A", "D", "I", "F", "=",
       "%", "F", "F">>}

ReplyInputs == EnvelopeReplies \cup AdifReplies

InitClient ==
    /\ CodecIdle
    /\ BuilderIdle
    /\ PagingIdle
    /\ api_key \in KeyInputs
    /\ user_agent \in AgentInputs
    /\ client = NoResult
    /\ cpc = "start"
    /\ reply = <<>>
    /\ parsed = NoResult

\* QrzLogbookClient::new(api_key, user_agent)
ClientNew ==
    /\ cpc = "start"
    /\ client' = new(api_key, user_agent)
    /\ cpc' = IF IsOk(client') THEN "ready" ELSE "refused"
    /\ UNCHANGED <<api_key, user_agent, reply, parsed, codecVars, builderVars, pagingVars>>

\* client.parse_insert_response(response)
ParseInsertResponse ==
    /\ cpc = "ready"
    /\ \E text \in ReplyInputs :
          /\ reply' = text
          /\ parsed' = parse_insert_response(text)
    /\ cpc' = "insert"
    /\ UNCHANGED <<api_key, user_agent, client, codecVars, builderVars, pagingVars>>

\* client.parse_delete_response(response)
ParseDeleteResponse ==
    /\ cpc = "ready"
    /\ \E text \in ReplyInputs :
          /\ reply' = text
          /\ parsed' = parse_delete_response(text)
    /\ cpc' = "delete"
    /\ UNCHANGED <<api_key, user_agent, client, codecVars, builderVars, pagingVars>>

\* client.parse_status_response(response)
ParseStatusResponse ==
    /\ cpc = "ready"
    /\ \E text \in ReplyInputs :
          /\ reply' = text
          /\ parsed' = parse_status_response(text)
    /\ cpc' = "status"
    /\ UNCHANGED <<api_key, user_agent, client, codecVars, builderVars, pagingVars>>

\* client.parse_fetch_response(response)
ParseFetchResponse ==
    /\ cpc = "ready"
    /\ \E text \in ReplyInputs :
          /\ reply' = text
          /\ parsed' = parse_fetch_response(text)
    /\ cpc' = "fetch"
    /\ UNCHANGED <<api_key, user_agent, client, codecVars, builderVars, pagingVars>>

NextClient ==
    \/ ClientNew
    \/ ParseInsertResponse
    \/ ParseDeleteResponse
    \/ ParseStatusResponse
    \/ ParseFetchResponse

SpecClient == InitClient /\ [][NextClient]_vars

(***************************************************************************)
(* What the claims speak of.                                               *)
(***************************************************************************)
HandWritten == qso = None

\* two results are the same: the same kind with the same value
SameResult(a, b) == a.kind = b.kind /\ a.val = b.val

Encoded == qso # None

IsAscii(str) == \A i \in 1..Len(str) : str[i] \notin NonAscii

FieldIdx(c) == {i \in 1..Len(c) : c[i].t = "field"}

\* every tag declares the number of characters of the value written after it
WellLengthed(c) == \A i \in FieldIdx(c) : c[i].len = ToDecimal(Len(c[i].value))

\* a text of field pieces closed by one marker
SingleRecord(c) ==
    /\ c # <<>>
    /\ c[Len(c)] = Eor
    /\ \A i \in 1..(Len(c) - 1) : c[i].t = "field"

\* the table a writer means by the field pieces of c: each lowercased name with the
\* value of its last piece
TableOf(c) ==
    [n \in {ToLowercase(c[i].name) : i \in FieldIdx(c)} |->
        c[CHOOSE i \in FieldIdx(c) :
              /\ ToLowercase(c[i].name) = n
              /\ \A j \in FieldIdx(c) : ToLowercase(c[j].name) = n => j <= i].value]

RECURSIVE GroupsOf(_)
\* the pieces of c between its markers: the records as written, and what follows
\* the last marker
GroupsOf(c) ==
    IF \E i \in 1..Len(c) : c[i] = Eor
    THEN LET i == CHOOSE i \in 1..Len(c) : c[i] = Eor /\ \A j \in 1..(i - 1) : c[j] # Eor
         IN  <<SubSeq(c, 1, i - 1)>> \o GroupsOf(SubSeq(c, i + 1, Len(c)))
    ELSE <<c>>

IsSpace(p) == p.t = "raw" /\ \A i \in 1..Len(p.value) : IsWhitespace(p.value[i])

\* g without its white-space pieces
StripSpace(g) == SelectSeq(g, LAMBDA p : ~IsSpace(p))

Mandatory == {N_call, N_station_callsign, N_qso_date, N_time_on, N_band, N_mode}

MissingMessages ==
    {"Missing call field", "Missing station_callsign field", "Missing band field",
     "Missing mode field", "Missing qso_date field", "Missing time_on field"}

\* the record r holds what q holds: the mandatory fields, the populated optional
\* fields, and the additional fields as a set of pairs
SameRecord(r, q) ==
    /\ r.call = q.call
    /\ r.station_callsign = q.station_callsign
    /\ r.qso_date = q.qso_date
    /\ r.time_on = q.time_on
    /\ r.band = q.band
    /\ r.mode = q.mode
    /\ q.time_off # None => r.time_off = q.time_off
    /\ q.freq # None => r.freq = q.freq
    /\ q.rst_sent # None => r.rst_sent = q.rst_sent
    /\ q.rst_rcvd # None => r.rst_rcvd = q.rst_rcvd
    /\ q.qth # None => r.qth = q.qth
    /\ q.name # None => r.name = q.name
    /\ q.comment # None => r.comment = q.comment
    /\ DOMAIN r.additional_fields = DOMAIN q.additional_fields
    /\ \A k \in DOMAIN q.additional_fields : r.additional_fields[k] = q.additional_fields[k]

\* q uses the documented fields with ASCII values: a four-digit year, ASCII text,
\* lowercase names of its own for the additional fields
Documented(q) ==
    /\ q.qso_date.year \in 0..9999
    /\ IsAscii(q.call) /\ IsAscii(q.station_callsign) /\ IsAscii(q.band) /\ IsAscii(q.mode)
    /\ \A o \in {q.rst_sent, q.rst_rcvd, q.qth, q.name, q.comment} : o # None => IsAscii(o[1])
    /\ \A k \in DOMAIN q.additional_fields :
          /\ IsAscii(k) /\ IsAscii(q.additional_fields[k])
          /\ ToLowercase(k) = k
          /\ k \notin KnownNames

\* C1: round trip.  Decoding the text to_adif writes for a record of documented
\* fields and ASCII values (any time of day, any ASCII text, any additional
\* fields) succeeds with exactly one record, equal to the record encoded.
C1_RoundTrip ==
    (pc = "done" /\ Encoded /\ Documented(qso[1]))
        => /\ IsOk(result)
           /\ Len(result.val) = 1
           /\ SameRecord(result.val[1], qso[1])

\* C2: wrong length is rejected.  A hand-written text in which a tag declares a
\* length other than the number of characters of the value written after it makes
\* parse_adif return a parse error.
C2_WrongLengthRejected ==
    (pc = "done" /\ HandWritten /\ ~WellLengthed(craft)) => IsErr(result)

\* C3: values are opaque.  A record whose tags declare the lengths of their values
\* decodes to exactly those values, whatever characters they hold ('<', '>', '&',
\* white space at either end, the text "<eor>"): the result is the one record of
\* the written table.
C3_ValuesOpaque ==
    (/\ pc = "done" /\ HandWritten
     /\ SingleRecord(craft) /\ WellLengthed(craft)
     /\ IsOk(fields_to_qso(TableOf(craft))))
        => SameResult(result, Ok(<<fields_to_qso(TableOf(craft)).val>>))

\* the record pieces of group g: g without the white space written before it
Body(g) == StripSpace(g)

\* the record b, closed by a marker, decodes on its own to one record
DecodesAlone(b) ==
    LET r == parse_adif(Render(b \o <<Eor>>))
    IN  IsOk(r) /\ Len(r.val) = 1

\* c is a concatenation of marker-terminated records, each of field pieces that
\* decode on their own, with white space only between the records and after the
\* last marker
IsConcatenation(c) ==
    LET gs == GroupsOf(c)
    IN  /\ Body(gs[Len(gs)]) = <<>>
        /\ \A i \in 1..(Len(gs) - 1) :
              /\ Body(gs[i]) # <<>>
              /\ \A j \in 1..Len(gs[i]) : gs[i][j].t = "field" \/ IsSpace(gs[i][j])
              /\ \A j, k \in 1..Len(gs[i]) :
                    (IsSpace(gs[i][j]) /\ ~IsSpace(gs[i][k])) => j < k
              /\ WellLengthed(gs[i])
              /\ DecodesAlone(Body(gs[i]))

RecordCount(c) == Len(GroupsOf(c)) - 1

C5_LengthFidelity ==
    (pc = "text" /\ Encoded)
        => \A order \in Orders(DOMAIN qso[1].additional_fields) :
              adif = to_adif(qso[1], order)
                  => LET fields == AdifFields(qso[1], order)
                     IN  \A i \in 1..Len(fields) : fields[i].len = Len(fields[i].value)

\* c with every spelling of the marker written in lower case
LowerEor(c) ==
    [i \in 1..Len(c) |->
        IF c[i].t = "raw" /\ ToLowercase(c[i].value) = EorMarker THEN Eor ELSE c[i]]

\* C6: the record separator is case-insensitive on input.  A text decodes to the
\* same result as the text with every separator written "<eor>".
C6_EorCaseInsensitive ==
    (pc = "done" /\ HandWritten)
        => SameResult(result, parse_adif(Render(LowerEor(craft))))

\* the lowercased names of the field pieces of g
NamesOf(g) == {ToLowercase(g[i].name) : i \in FieldIdx(g)}

\* the records of c as written: its groups that are not blank
WrittenRecords(c) ==
    LET gs == GroupsOf(c)
    IN  {gs[i] : i \in {j \in 1..Len(gs) : Trim(Render(gs[j])) # <<>>}}

\* C7: missing mandatory field.  If a non-empty record holds no token named call,
\* station_callsign, qso_date, time_on, band or mode (one of them), parse_adif
\* fails with a parse error, whatever other fields are there; when every record
\* holds all six, it does not fail for a missing field.
C7_MissingMandatory ==
    (pc = "done" /\ HandWritten /\ WellLengthed(craft))
        => /\ (\E g \in WrittenRecords(craft) : \E m \in Mandatory : m \notin NamesOf(g))
                  => IsErr(result)
           /\ (\A g \in WrittenRecords(craft) : Mandatory \subseteq NamesOf(g))
                  => ~(IsErr(result) /\ result.val \in MissingMessages)

\* a record without band, with other fields beside the mandatory ones, has been
\* refused for the missing band
C7_Witness ==
    /\ pc = "done" /\ HandWritten /\ WellLengthed(craft) /\ SingleRecord(craft)
    /\ NamesOf(craft) = (Mandatory \ {N_band}) \cup {N_comment}
    /\ IsErr(result) /\ result.val = "Missing band field"

\* C8: decode is all-or-nothing.  If any record of the input is malformed (bad
\* length prefix, value running past the record, missing mandatory field, invalid
\* date, time or frequency), parse_adif returns an error and no records, wherever
\* the bad record stands and whatever well-formed records stand around it.
C8_AllOrNothing ==
    (pc = "done" /\ HandWritten
     /\ \E g \in WrittenRecords(craft) : Body(g) \in BadBodies)
        => IsErr(result) /\ qsos = <<>>

\* craft is the record Base1 with the value v in its i-th field
IsBase1With(c, i) ==
    /\ Len(c) = 7 /\ SingleRecord(c) /\ WellLengthed(c)
    /\ c[i].name = Base1[i].name
    /\ ReplaceAt(c, i, Base1[i]) = Base1 \o <<Eor>>

\* a date text as the format defines it: YYYYMMDD in digits, a month of the year,
\* a day of that month
ValidDateText(d) ==
    /\ Len(d) = 8
    /\ AllDigits(d)
    /\ DecValue(SubSeq(d, 5, 6)) \in 1..12
    /\ DecValue(SubSeq(d, 7, 8)) \in
          1..DaysInMonth(DecValue(SubSeq(d, 1, 4)), DecValue(SubSeq(d, 5, 6)))

\* C9: date validity.  parse_adif accepts a qso_date value if and only if it is
\* eight decimal digits YYYYMMDD with a month 01..12 and a day of that month
\* (leap years included), and the decoded date has that year, month and day.
C9_DateValidity ==
    (pc = "done" /\ HandWritten /\ IsBase1With(craft, 3))
        => LET d == craft[3].value
           IN  /\ IsOk(result) <=> ValidDateText(d)
               /\ IsOk(result) =>
                     result.val[1].qso_date =
                         Date(DecValue(SubSeq(d, 1, 4)), DecValue(SubSeq(d, 5, 6)),
                              DecValue(SubSeq(d, 7, 8)))

\* a time text as the format defines it: HHMM or HHMMSS in digits, in range
ValidTimeText(t) ==
    /\ Len(t) \in {4, 6}
    /\ AllDigits(t)
    /\ DecValue(SubSeq(t, 1, 2)) <= 23
    /\ DecValue(SubSeq(t, 3, 4)) <= 59
    /\ Len(t) = 6 => DecValue(SubSeq(t, 5, 6)) <= 59

\* the time a valid time text names: the seconds of HHMM are 00
TimeOfText(t) ==
    Time(DecValue(SubSeq(t, 1, 2)), DecValue(SubSeq(t, 3, 4)),
         IF Len(t) = 6 THEN DecValue(SubSeq(t, 5, 6)) ELSE 0)

\* craft is the record Base1 followed by a time_off field
IsBase1WithTimeOff(c) ==
    /\ Len(c) = 8 /\ SingleRecord(c) /\ WellLengthed(c)
    /\ c[7].name = N_time_off
    /\ RemoveAt(c, 7) = Base1 \o <<Eor>>

\* C10: time tolerance.  For time_on and time_off, decode succeeds exactly for
\* HHMM and HHMMSS in digits with hour <= 23, minute <= 59, second <= 59, HHMM
\* decoding as HHMM00; an absent time_off is no error, an absent time_on is.
C10_TimeTolerance ==
    (pc = "done" /\ HandWritten)
        => /\ IsBase1With(craft, 4) =>
                 /\ IsOk(result) <=> ValidTimeText(craft[4].value)
                 /\ IsOk(result) => result.val[1].time_on = TimeOfText(craft[4].value)
           /\ IsBase1WithTimeOff(craft) =>
                 /\ IsOk(result) <=> ValidTimeText(craft[7].value)
                 /\ IsOk(result) =>
                       result.val[1].time_off = Some(TimeOfText(craft[7].value))
           /\ craft = Base1 \o <<Eor>> => IsOk(result) /\ result.val[1].time_off = None
           /\ craft = RemoveAt(Base1, 4) \o <<Eor>> => IsErr(result)

\* craft is the record Base1 followed by a comment field, of any declared length,
\* whose written value is what remains of the record after the tag: the value holds
\* no marker and no white space at its end
IsBase1WithLast(c) ==
    /\ Len(c) = 8 /\ SingleRecord(c)
    /\ SubSeq(c, 1, 6) = Base1
    /\ c[7].name = N_comment
    /\ Find(c[7].value, EorMarker) = Len(c[7].value)
    /\ TrimEnd(c[7].value) = c[7].value

\* a length prefix as the format defines it: one or more decimal digits
IsDecimalText(l) == l # <<>> /\ AllDigits(l)

\* the number the decimal text l names fits the machine word
InWordRange(l) == ~DigitsLess(UsizeMaxText, StripZeros(l))

\* the number the decimal text l names is greater than n
DeclaresMoreThan(l, n) == Len(StripZeros(l)) > 9 \/ DecValue(StripZeros(l)) > n

\* the number the decimal text l names is n
Declares(l, n) == Len(StripZeros(l)) <= 9 /\ DecValue(StripZeros(l)) = n

\* C11: malformed length prefix.  For the last field of a record, whose value runs
\* to the end of the record: a length prefix that is not a decimal number (or is
\* one beyond the machine word) makes parse_adif fail with a parse error; a
\* declared length greater than the number of characters that remain makes it
\* fail with the parse error "Field value extends beyond record"; a declared
\* length equal to the remaining count (0 at the very end of the record included)
\* is accepted.
C11_MalformedLength ==
    (pc = "done" /\ HandWritten /\ IsBase1WithLast(craft))
        => LET l == craft[7].len
               v == craft[7].value
           IN  /\ ~(IsDecimalText(l) /\ InWordRange(l)) => IsErr(result)
               /\ (IsDecimalText(l) /\ InWordRange(l) /\ DeclaresMoreThan(l, Len(v)))
                     => SameResult(result, Err("Field value extends beyond record"))
               /\ (IsDecimalText(l) /\ Declares(l, Len(v)))
                     => /\ IsOk(result)
                        /\ result.val[1].comment = Some(v)

\* the names and values to_adif is to write for q, in the order of the format: the
\* six mandatory fields, the populated optional fields, the additional fields in
\* the order given, under their names in lower case
Pair(name, value) == [name |-> name, value |-> value]

Populated(name, opt) == IF opt = None THEN <<>> ELSE <<Pair(name, opt[1])>>

ExpectedPairs(q, order) ==
    <<Pair(N_call, q.call), Pair(N_station_callsign, q.station_callsign),
      Pair(N_qso_date, FormatDate(q.qso_date)), Pair(N_time_on, format_time(q.time_on)),
      Pair(N_band, q.band), Pair(N_mode, q.mode)>>
    \o Populated(N_time_off, IF q.time_off = None THEN None
                              ELSE Some(format_time(q.time_off[1])))
    \o Populated(N_freq, IF q.freq = None THEN None ELSE Some(F64ToString(q.freq[1])))
    \o Populated(N_rst_sent, q.rst_sent)
    \o Populated(N_rst_rcvd, q.rst_rcvd)
    \o Populated(N_qth, q.qth)
    \o Populated(N_name, q.name)
    \o Populated(N_comment, q.comment)
    \o [i \in 1..Len(order) |-> Pair(ToLowercase(order[i]), q.additional_fields[order[i]])]

RECURSIVE IsLayout(_, _)
\* text is one token "<name:digits>value" for each of pairs, in order, then the
\* marker, then nothing
IsLayout(text, pairs) ==
    IF pairs = <<>> THEN text = EorMarker
    ELSE LET open == <<"<">> \o pairs[1].name \o <<":">>
             gt == ScanTo(text, Len(open), {">"})
             stop == gt + 1 + Len(pairs[1].value)
         IN  /\ MatchesAt(text, 0, open)
             /\ gt < Len(text)
             /\ IsDecimalText(Slice(text, Len(open), gt))
             /\ stop <= Len(text)
             /\ Slice(text, gt + 1, stop) = pairs[1].value
             /\ IsLayout(Slice(text, stop, Len(text)), Tail(pairs))

\* C12: encoder layout.  The text to_adif returns for a record is the tokens call,
\* station_callsign, qso_date, time_on, band, mode in that order, then one token
\* for each populated field among time_off, freq, rst_sent, rst_rcvd, qth, name,
\* comment in that order and none for an absent one, then one token for each
\* entry of additional_fields under its key in lower case, then "<eor>" as the
\* last five characters.
C12_EncoderLayout ==
    (pc = "text" /\ Encoded)
        => \E order \in Orders(DOMAIN qso[1].additional_fields) :
              IsLayout(adif, ExpectedPairs(qso[1], order))

\* a record with rst_sent, qth and comment populated, the other optional fields
\* absent, and two additional fields, one under a name with capitals, is encoded
C12_Witness ==
    /\ pc = "text" /\ Encoded
    /\ qso[1].rst_sent # None /\ qso[1].qth # None /\ qso[1].comment # None
    /\ qso[1].time_off = None /\ qso[1].freq = None
    /\ qso[1].rst_rcvd = None /\ qso[1].name = None
    /\ DOMAIN qso[1].additional_fields = {N_MyKey, N_app}
    /\ Len(adif) > Len(EorMarker)

\* C13: encoding has no randomness.  Whatever call of to_adif wrote the text of a
\* record, every other call of to_adif on a record of equal field values
\* (additional_fields of two or more entries included) returns the same text.
C13_NoRandomness ==
    (pc = "text" /\ Encoded)
        => \A order \in Orders(DOMAIN qso[1].additional_fields) :
              to_adif(qso[1], order) = adif

\* the two digits of a number below 100
TwoDigits(n) == <<DigitChar(n \div 10), DigitChar(n % 10)>>

\* the token of the field name in text holds the time t as HHMM under the declared
\* length 4, and another tag follows it at once
TimeTokenIs(text, name, t) ==
    LET token == <<"<">> \o name \o <<":", "4", ">">> \o TwoDigits(t.hour) \o TwoDigits(t.minute)
    IN  \E i \in 0..(Len(text) - Len(token) - 1) :
           /\ MatchesAt(text, i, token)
           /\ At(text, i + Len(token)) = "<"

\* C14: time output.  For every time of day, to_adif writes time_on and time_off
\* as exactly four characters, the two-digit hour then the two-digit minute,
\* under the declared length 4; the seconds are never written, so the text is
\* the same whatever the seconds of time_on and time_off are.
C14_TimeOutput ==
    (pc = "text" /\ Encoded)
        => /\ TimeTokenIs(adif, N_time_on, qso[1].time_on)
           /\ qso[1].time_off # None => TimeTokenIs(adif, N_time_off, qso[1].time_off[1])
           /\ \A order \in Orders(DOMAIN qso[1].additional_fields) :
                 adif = to_adif(qso[1], order)
                     => \A x \in {0, 29, 59} :
                           /\ to_adif([qso[1] EXCEPT !.time_on.second = x], order) = adif
                           /\ qso[1].time_off # None
                                 => to_adif([qso[1] EXCEPT !.time_off[1].second = x], order)
                                        = adif

\* a record whose time_on 09:05:07 and time_off 23:59:59 have seconds is encoded
C14_Witness ==
    /\ pc = "text" /\ Encoded
    /\ qso[1].time_on = [hour |-> 9, minute |-> 5, second |-> 7]
    /\ qso[1].time_off = Some([hour |-> 23, minute |-> 59, second |-> 59])
    /\ TimeTokenIs(adif, N_time_on, qso[1].time_on)

\* c with every tag name written in lower case
LowerNames(c) ==
    [i \in 1..Len(c) |-> IF c[i].t = "field" THEN Renamed(c[i], ToLowercase(c[i].name)) ELSE c[i]]

\* no capital letter stands in k
IsLowercase(k) == \A i \in 1..Len(k) : \A j \in 1..26 : k[i] # UpperLetters[j]

\* C15: tag names are case-insensitive on input.  A text decodes to the same
\* result as the text with every tag name written in lower case, and after every
\* successful decode all keys of additional_fields are in lower case.
C15_TagNameCase ==
    pc = "done"
        => /\ HandWritten => SameResult(result, parse_adif(Render(LowerNames(craft))))
           /\ IsOk(result)
                 => \A i \in 1..Len(result.val) :
                       \A k \in DOMAIN result.val[i].additional_fields : IsLowercase(k)

\* a record whose tag names are all in capitals, a name of the application among
\* them, has been decoded, and the application's field is kept under app_x
C15_Witness ==
    /\ pc = "done" /\ HandWritten
    /\ \A i \in FieldIdx(craft) : craft[i].name = ToUppercase(craft[i].name)
    /\ \E i \in FieldIdx(craft) : craft[i].name = ToUppercase(N_app)
    /\ IsOk(result) /\ Len(result.val) = 1
    /\ DOMAIN result.val[1].additional_fields = {N_app}
    /\ result.val[1].call = V_call

\* the field pieces of a single record, without its marker
BodyOf(c) == SubSeq(c, 1, Len(c) - 1)

\* no name is given twice in b, letter case apart
DistinctNames(b) ==
    \A i, j \in 1..Len(b) : ToLowercase(b[i].name) = ToLowercase(b[j].name) => i = j

\* b in other orders: turned round, and two neighbours exchanged
Reorderings(b) ==
    {SubSeq(b, k + 1, Len(b)) \o SubSeq(b, 1, k) : k \in 0..(Len(b) - 1)}
    \cup {[i \in 1..Len(b) |-> IF i = k THEN b[k + 1] ELSE IF i = k + 1 THEN b[k] ELSE b[i]] :
            k \in 1..(Len(b) - 1)}

RECURSIVE LastOnly(_)
\* b without the pieces whose name is given again later, letter case apart
LastOnly(b) ==
    IF b = <<>> THEN <<>>
    ELSE IF \E j \in 2..Len(b) : ToLowercase(b[j].name) = ToLowercase(b[1].name)
    THEN LastOnly(Tail(b))
    ELSE <<b[1]>> \o LastOnly(Tail(b))

\* two results agree on the records decoded: when either is a success, they are
\* the same
Agree(a, b) == (IsOk(a) \/ IsOk(b)) => SameResult(a, b)

\* C16: order independence with last-wins duplicates.  The record decoded from a
\* record of field tokens depends only on the last value given to each name,
\* letter case apart: the tokens of a record of distinct names in another order
\* decode to the same record, and a record in which a name occurs more than once
\* decodes, without an error, to what it decodes to without the earlier
\* occurrences.
C16_OrderIndependence ==
    (pc = "done" /\ HandWritten /\ SingleRecord(craft) /\ WellLengthed(craft))
        => LET b == BodyOf(craft)
           IN  /\ DistinctNames(b)
                     => \A p \in Reorderings(b) :
                           Agree(result, parse_adif(Render(p \o <<Eor>>)))
               /\ Agree(result, parse_adif(Render(LastOnly(b) \o <<Eor>>)))

\* the thirteen names of the record's own fields
ThirteenNames ==
    {<<"c", "a", "l", "l">>,
     <<"s", "t", "a", "t", "i", "o", "n", "_", "c", "a", "l", "l", "s", "i", "g", "n">>,
     <<"q", "s", "o", "_", "d", "a", "t", "e">>, <<"t", "i", "m", "e", "_", "o", "n">>,
     <<"t", "i", "m", "e", "_", "o", "f", "f">>, <<"b", "a", "n", "d">>,
     <<"m", "o", "d", "e">>, <<"f", "r", "e", "q">>,
     <<"r", "s", "t", "_", "s", "e", "n", "t">>, <<"r", "s", "t", "_", "r", "c", "v", "d">>,
     <<"q", "t", "h">>, <<"n", "a", "m", "e">>, <<"c", "o", "m", "m", "e", "n", "t">>}

\* the partitions of the text that hold a record
RecordParts == SelectSeq(records, LAMBDA r : Trim(r) # <<>>)

\* the optional field opt of a decoded record is there exactly when the table t
\* holds name, with the table's value
AsTokenized(opt, t, name) ==
    IF name \in DOMAIN t THEN opt = Some(t[name]) ELSE opt = None

\* C17: unknown fields partition.  After every successful decode, the
\* additional_fields of each record holds exactly the tokenized fields whose name
\* in lower case is none of the thirteen names of the record's own fields, each
\* with its value as tokenized; none of the thirteen names is a key; rst_sent,
\* rst_rcvd, qth, name and comment are present exactly when their token was.
C17_UnknownFields ==
    (pc = "done" /\ IsOk(result))
        => /\ Len(result.val) = Len(RecordParts)
           /\ \A i \in 1..Len(result.val) :
                 LET t == Tokenize(Trim(RecordParts[i]), 0, EmptyMap).val
                     r == result.val[i]
                 IN  /\ DOMAIN r.additional_fields = (DOMAIN t) \ ThirteenNames
                     /\ \A k \in DOMAIN r.additional_fields : r.additional_fields[k] = t[k]
                     /\ AsTokenized(r.rst_sent, t, N_rst_sent)
                     /\ AsTokenized(r.rst_rcvd, t, N_rst_rcvd)
                     /\ AsTokenized(r.qth, t, N_qth)
                     /\ AsTokenized(r.name, t, N_name)
                     /\ AsTokenized(r.comment, t, N_comment)

\* a record with tokens for rst_sent, comment and two fields of other names, and
\* none for qth, has been decoded: the two are its additional fields
C17_Witness ==
    /\ pc = "done" /\ IsOk(result) /\ Len(result.val) = 1
    /\ result.val[1].rst_sent = Some(V_rst)
    /\ result.val[1].comment = Some(V_hi)
    /\ result.val[1].qth = None
    /\ DOMAIN result.val[1].additional_fields = {ToLowercase(N_MyKey), N_app}
    /\ result.val[1].additional_fields[N_app] = <<"1">>

\* the setter calls made for field: the positions in calls
CallsOf(setter) == {i \in 1..Len(calls) : calls[i][1] = setter}

\* the argument of the last call of setter
LastArg(setter) == calls[CHOOSE i \in CallsOf(setter) : \A j \in CallsOf(setter) : j <= i][2]

\* a mandatory field: the last value set, or the default
LastOrDefault(setter, default) ==
    IF CallsOf(setter) = {} THEN default ELSE LastArg(setter)

\* an optional field: the last value set, or absent
LastOrAbsent(setter) == IF CallsOf(setter) = {} THEN None ELSE Some(LastArg(setter))

\* the additional_field calls made for key k
KeyCalls(k) == {i \in CallsOf("additional_field") : calls[i][2][1] = k}

\* C18: builder.  After any sequence of setter calls, build() returns a record in
\* which each field is the value of the last setter call for that field, whatever
\* other setters were called; an unset call, station_callsign, band or mode is
\* the empty string, an unset date 1900-01-01, an unset time_on 00:00:00; an
\* unset optional field is absent; the additional_field calls accumulate, the
\* last value given to a key being its value; build() can be called on every
\* builder and returns a record.
C18_Builder ==
    /\ bpc = "building" => ENABLED BuilderBuild
    /\ bpc = "built"
        => LET r == built[1]
           IN  /\ r.call = LastOrDefault("call", <<>>)
               /\ r.station_callsign = LastOrDefault("station_callsign", <<>>)
               /\ r.band = LastOrDefault("band", <<>>)
               /\ r.mode = LastOrDefault("mode", <<>>)
               /\ r.qso_date = LastOrDefault("date", [year |-> 1900, month |-> 1, day |-> 1])
               /\ r.time_on = LastOrDefault("time_on", [hour |-> 0, minute |-> 0, second |-> 0])
               /\ r.time_off = LastOrAbsent("time_off")
               /\ r.freq = LastOrAbsent("freq")
               /\ r.rst_sent = LastOrAbsent("rst_sent")
               /\ r.rst_rcvd = LastOrAbsent("rst_rcvd")
               /\ r.qth = LastOrAbsent("qth")
               /\ r.name = LastOrAbsent("name")
               /\ r.comment = LastOrAbsent("comment")
               /\ DOMAIN r.additional_fields =
                      {calls[i][2][1] : i \in CallsOf("additional_field")}
               /\ \A k \in DOMAIN r.additional_fields :
                      \E i \in KeyCalls(k) :
                          /\ \A j \in KeyCalls(k) : j <= i
                          /\ r.additional_fields[k] = calls[i][2][2]

\* a builder on which call was set and then one key was given two values, and
\* nothing else, has been built: the key has the second value, call the value
\* set, the other mandatory fields their defaults
C18_Witness ==
    /\ bpc = "built"
    /\ Len(calls) = 3
    /\ CallsOf("call") = {1}
    /\ \E k \in KeyArgs : KeyCalls(k) = {2, 3} /\ calls[2][2][2] # calls[3][2][2]
    /\ built[1].call = calls[1][2]
    /\ built[1].band = <<>>
    /\ built[1].qso_date = [year |-> 1900, month |-> 1, day |-> 1]
    /\ built[1].comment = None

\* the group of pieces g ends inside a tag: its last piece opens a tag that is
\* not closed
EndsInsideTag(g) ==
    /\ g # <<>>
    /\ g[Len(g)].t = "raw"
    /\ g[Len(g)].value # <<>>
    /\ g[Len(g)].value[1] = "<"
    /\ \A i \in 1..Len(g[Len(g)].value) : g[Len(g)].value[i] # ">"

\* C23: truncated tag.  When a record ends inside a tag, after its '<' and
\* before its '>', in the name or in the length, parse_adif fails with a parse
\* error.
C23_TruncatedTag ==
    (pc = "done" /\ HandWritten
     /\ \E i \in 1..Len(GroupsOf(craft)) : EndsInsideTag(GroupsOf(craft)[i]))
        => IsErr(result)

\* C24: huge declared length.  A declared length that parses as an unsigned
\* machine word, the values at and near 2^64 - 1 included, and exceeds what is
\* left of the input makes parse_adif return the parse error "Field value extends
\* beyond record": the addition does not wrap to a position in range and the
\* call does not abort.
C24_HugeLength ==
    (pc = "done" /\ HandWritten /\ IsBase1WithLast(craft)
     /\ IsDecimalText(craft[7].len) /\ InWordRange(craft[7].len)
     /\ DeclaresMoreThan(craft[7].len, Len(craft[7].value)))
        => /\ result.kind # "Panic"
           /\ SameResult(result, Err("Field value extends beyond record"))

\* x is a tag without length: '<', a name without '<', ':' and '>', and '>'; not
\* the end-of-record marker
IsMarkerTag(x) ==
    /\ Len(x) >= 2 /\ x[1] = "<" /\ x[Len(x)] = ">"
    /\ \A i \in 2..(Len(x) - 1) : x[i] \notin {"<", ":", ">"}
    /\ x # EorMarker

\* x is one or more characters, none of them '<'
IsStray(x) == x # <<>> /\ \A i \in 1..Len(x) : x[i] # "<"

\* c is the record Base3 with one raw piece put in between two of its tokens
IsBase3WithInsert(c, i) ==
    /\ Len(c) = Len(Base3) + 2
    /\ i \in 2..Len(Base3)
    /\ c[i].t = "raw"
    /\ RemoveAt(c, i) = Base3 \o <<Eor>>

\* C25: marker tags and stray characters are ignored.  A tag without length, or
\* characters other than '<', put in between the field tokens of a well-formed
\* record change nothing in the decoded record and add no entry to
\* additional_fields.
C25_MarkersIgnored ==
    (pc = "done" /\ HandWritten)
        => \A i \in 2..Len(Base3) :
              (IsBase3WithInsert(craft, i)
               /\ (IsMarkerTag(craft[i].value) \/ IsStray(craft[i].value)))
                  => /\ SameResult(result, parse_adif(Render(Base3 \o <<Eor>>)))
                     /\ IsOk(result) /\ Len(result.val) = 1
                     /\ result.val[1].call = V_call
                     /\ result.val[1].comment = Some(V_hi)
                     /\ DOMAIN result.val[1].additional_fields = {N_app}

\* the tag <call> without length has been put in before the comment of Base3, and
\* the record decoded has the call of its call field and the one additional field
C25_Witness ==
    /\ pc = "done" /\ HandWritten
    /\ IsBase3WithInsert(craft, 7)
    /\ craft[7].value = <<"<", "c", "a", "l", "l", ">">>
    /\ IsOk(result)
    /\ result.val[1].call = V_call
    /\ DOMAIN result.val[1].additional_fields = {N_app}

\* C27: decode is total.  For every input text, those whose qso_date, time_on or
\* time_off hold a character of several bytes included, parse_adif returns
\* records or a parse error; it does not abort.
C27_DecodeTotal ==
    pc = "done" => (IsOk(result) \/ IsErr(result))

(***************************************************************************)
(* fetch_all_qsos                                                          *)
(***************************************************************************)
\* C19: against a server that answers each FETCH with at most MAX of its
\* matching QSOs whose logid is after the request's AFTERLOGID, lowest logids
\* first, with their logids, fetch_all_qsos returns every matching QSO exactly
\* once, a QSO on the far side of a page boundary included.
C19_PagingCompleteness ==
    (fpc = "done" /\ honest) => fresult = Ok(store)

RECURSIVE ConcatPages(_)
\* the records of the successful pages, in the order of the replies
ConcatPages(rs) ==
    IF rs = <<>> THEN <<>>
    ELSE (IF IsOk(rs[1]) THEN rs[1].val.qsos ELSE <<>>) \o ConcatPages(Tail(rs))

\* the comma-separated parts of the OPTION text of a request
OptionParts(req) == IF req.option = None THEN <<>> ELSE Split(req.option[1], <<",">>)

HasPart(req, part) == \E i \in 1..Len(OptionParts(req)) : OptionParts(req)[i] = part

HasLabel(req, label) ==
    \E i \in 1..Len(OptionParts(req)) : MatchesAt(OptionParts(req)[i], 0, label \o <<":">>)

\* the loop has dealt with the i-th reply
Handled(i) == i < Len(responses) \/ (i = Len(responses) /\ fpc # "replied")

\* C20: every request carries MAX 250 whatever max the caller holds, and the
\* caller's other filters; the first request carries no AFTERLOGID; after a page
\* of zero or fewer than 250 records no further request is issued and the call
\* returns, after a full page the next request is issued; the call returns the
\* concatenation of the pages' records in request order, or the error of the
\* page that failed.
C20_PagingRequests ==
    /\ \A i \in 1..Len(requests) :
          LET o == requests[i].page_options
          IN  /\ o.max = Some(page_size)
              /\ [o EXCEPT !.max = options.max, !.after_logid = options.after_logid] = options
              /\ HasPart(requests[i], <<"M", "A", "X", ":", "2", "5", "0">>)
              /\ \A j \in 1..Len(OptionParts(requests[i])) :
                     MatchesAt(OptionParts(requests[i])[j], 0, <<"M", "A", "X", ":">>)
                         => OptionParts(requests[i])[j] = <<"M", "A", "X", ":", "2", "5", "0">>
              /\ options.all <=> HasPart(requests[i], <<"A", "L", "L">>)
              /\ (options.band # None) <=> HasLabel(requests[i], <<"B", "A", "N", "D">>)
              /\ (options.date_from # None)
                     <=> HasLabel(requests[i], <<"D", "A", "T", "E", "F", "R", "O", "M">>)
              /\ (options.date_to # None)
                     <=> HasLabel(requests[i], <<"D", "A", "T", "E", "T", "O">>)
    /\ requests # <<>>
          => /\ requests[1].page_options.after_logid = None
             /\ ~HasLabel(requests[1], <<"A", "F", "T", "E", "R", "L", "O", "G", "I", "D">>)
    /\ \A i \in 1..Len(responses) :
          Handled(i)
              => IF IsOk(responses[i]) /\ Len(responses[i].val.qsos) >= page_size
                 THEN Len(requests) > i
                 ELSE Len(requests) = i /\ fpc = "done"
    /\ fpc = "done"
          => IF IsOk(responses[Len(responses)])
             THEN fresult = Ok(ConcatPages(responses))
             ELSE fresult = responses[Len(responses)]

\* the AFTERLOGID of a request, 0 for a request without one
AfterLogidOf(req) ==
    IF req.page_options.after_logid = None THEN U64(0) ELSE req.page_options.after_logid[1]

\* C26: paging progress.  Within one call, whatever the successful replies (full
\* pages whose LOGIDS is missing or not larger than before included), the
\* AFTERLOGID sent grows strictly from one request to the next, so no page
\* request is issued twice.
C26_PagingProgress ==
    \A i \in 1..(Len(requests) - 1) :
        /\ U64Less(AfterLogidOf(requests[i]), AfterLogidOf(requests[i + 1]))
        /\ requests[i] # requests[i + 1]

(***************************************************************************)
(* QrzLogbookClient::new and the replies of the server.                    *)
(***************************************************************************)
\* the user agents the claim refuses: empty, of more than 128 characters,
\* holding a generic name or being one, in any letter case
RefusedAgent(agent) ==
    \/ agent = <<>>
    \/ Len(agent) > 128
    \/ \E g \in GenericAgents : Contains(ToLowercase(agent), g)
    \/ ToLowercase(agent) \in GenericAgentNames

\* C22: client construction validation.  new returns InvalidKey when the key is
\* empty or of fewer than 10 characters; otherwise InvalidUserAgent when the user
\* agent is empty, of more than 128 characters, holds python-requests or
\* node-fetch, or is curl or wget, in any letter case; every other pair of key
\* and user agent is accepted.
C22_ClientValidation ==
    cpc \in {"ready", "refused"}
        => IF Len(api_key) < 10
           THEN client.kind = "Err" /\ client.val = "InvalidKey"
           ELSE IF RefusedAgent(user_agent)
           THEN client.kind = "Err" /\ client.val = "InvalidUserAgent"
           ELSE IsOk(client)

\* the reply has been handed to one of the four parse methods
Parsed == cpc \in {"insert", "delete", "status", "fetch"}

\* every key and every value of the reply decodes
ReplyDecodes == IsOk(parse_response_params(reply))

\* the parameters of the reply: decoded, or as written when one does not decode
ReplyParams ==
    IF ReplyDecodes THEN parse_response_params(reply).val ELSE parse_data_params(reply).val

ReplyHas(params, name) == MapGet(params, name) # None

ReplyValue(params, name) == MapGet(params, name)[1]

IsApi(r, reason) == r.kind = "Err" /\ r.val.variant = "Api" /\ r.val.reason = reason

IsAuth(r) == r.kind = "Err" /\ r.val.variant = "Auth"

IsAdifParse(r) == r.kind = "Err" /\ r.val.variant = "AdifParse"

\* RESULT is OK, or PARTIAL for delete
SuccessResult(params) ==
    \/ MapGet(params, P_RESULT) = Some(R_OK)
    \/ cpc = "delete" /\ MapGet(params, P_RESULT) = Some(R_PARTIAL)

\* the outcome of a success RESULT: a value, with the default COUNT; an error
\* for an insert without LOGID; the AdifParse error for a fetch whose ADIF does
\* not parse
SuccessCase(params) ==
    CASE cpc = "insert" ->
             IF ~ReplyHas(params, P_LOGID) THEN IsErr(parsed)
             ELSE IsOk(parsed) /\ (~ReplyHas(params, P_COUNT) => parsed.val.count = U64(1))
      [] cpc = "delete" ->
             IsOk(parsed) /\ (~ReplyHas(params, P_COUNT) => parsed.val.deleted_count = U64(0))
      [] cpc = "status" -> IsOk(parsed)
      [] cpc = "fetch" ->
             IF ReplyHas(params, P_ADIF) /\ IsErr(parse_adif(ReplyValue(params, P_ADIF)))
             THEN IsAdifParse(parsed) /\ parsed.val.msg = parse_adif(ReplyValue(params, P_ADIF)).val
             ELSE IsOk(parsed) /\ (~ReplyHas(params, P_COUNT) => parsed.val.count = U64(0))

\* the outcome by RESULT
Envelope(params) ==
    IF SuccessResult(params) THEN SuccessCase(params)
    ELSE IF MapGet(params, P_RESULT) = Some(R_FAIL)
    THEN IsApi(parsed, UnwrapOr(MapGet(params, P_REASON), <<"U", "n", "k", "n", "o", "w", "n", " ", "e", "r", "r", "o", "r">>))
    ELSE IF MapGet(params, P_RESULT) = Some(R_AUTH) THEN IsAuth(parsed)
    ELSE IsApi(parsed, <<"U", "n", "e", "x", "p", "e", "c", "t", "e", "d", " ", "r", "e", "s", "p", "o", "n", "s", "e", " ", "f", "o", "r", "m", "a", "t">>)

NumberError(params) ==
    IF cpc = "insert" /\ ~ReplyHas(params, P_LOGID) THEN <<>>
    ELSE IF cpc = "insert" /\ ~IsOk(ParseUsize(ReplyValue(params, P_LOGID)))
    THEN <<"I", "n", "v", "a", "l", "i", "d", " ", "L", "O", "G", "I", "D", " ", "f", "o", "r", "m", "a", "t">>
    ELSE IF cpc # "status" /\ ReplyHas(params, P_COUNT) /\ ~IsOk(ParseU32(ReplyValue(params, P_COUNT)))
    THEN <<"I", "n", "v", "a", "l", "i", "d", " ", "C", "O", "U", "N", "T", " ", "f", "o", "r", "m", "a", "t">>
    ELSE <<>>

\* the ADIF of a success reply to fetch aborts the decode
DecodeAborts(params) ==
    /\ cpc = "fetch"
    /\ ReplyHas(params, P_ADIF)
    /\ parse_adif(ReplyValue(params, P_ADIF)).kind = "Panic"

\* the outcome for a reply that decodes
WellFormedEnvelope(params) ==
    IF SuccessResult(params) /\ NumberError(params) # <<>> THEN IsApi(parsed, NumberError(params))
    ELSE IF SuccessResult(params) /\ DecodeAborts(params) THEN parsed.kind = "Panic"
    ELSE Envelope(params)

====
